---- MODULE Spec2Model ----
(***************************************************************************)
(* Model of the web-graph concurrency practice server:                     *)
(*   server/hashcacher.py  HashCacher (persistent seed cache)              *)
(*   server/server.py      seed pools, seed issuance, build_graph          *)
(*   server/demo_server.py build_graph (regular/delay page variant)        *)
(*                                                                         *)
(* Strings are sequences of character codes: '0'..'9' are 0..9, 'a'..'z'   *)
(* are 10..35 and '_' is 36.             The hex alphabet of md5 digests   *)
(* and of HashCacher seeds is scaled down to the first NumHex hex digits.  *)
(***************************************************************************)
EXTENDS Integers, Sequences, FiniteSets, TLC

\* ------------------------------------------------------------------ bounds
NumHex == 2            \* size of the hex alphabet (scaled down from 16)
NumSeeds == 4          \* number of distinct strings the seed generator can return
DIGEST_LEN == 5        \* length of a hex digest (scaled down from 32)
MaxNeeded == 2         \* largest `needed` passed to ensure_cpu_seeds
MaxIter == 2           \* largest iteration count passed to ensure_cpu_seeds
MaxTargets == 2        \* longest target list passed to an issuing call
MaxPages == 3          \* largest TOTAL_PAGES a graph is built for
MaxRecords == 12       \* largest `needed` of a long run of ensure_cpu_seeds

\* ------------------------------------------- configuration (config.py values)
PAGE_ID_LENGTH == 2
CPU_PAGE_ITERATIONS == 2
CORE_PAGE_ITERATIONS_PER_CHAR == 1
CORE_SEEDS_PER_CHAR == 1

\* ------------------------------------------------------- program constants
SEED_LEN == 16
CORE_BUCKET_FACTOR == 2
SAVE_EVERY == 10

None == -1             \* Python's None for an optional integer argument
UNDERSCORE == 36
CHAR_Z == 35

\* ---------------------------------------------------------------- strings
HexChars == 0 .. (NumHex - 1)

Range(s) == {s[i] : i \in 1 .. Len(s)}

Min(a, b) == IF a < b THEN a ELSE b

\* s[:n]
Prefix(s, n) == SubSeq(s, 1, Min(n, Len(s)))

\* s.ljust(n, c)
RECURSIVE ljust(_, _, _)
ljust(s, n, c) == IF Len(s) >= n THEN s ELSE ljust(Append(s, c), n, c)

\* all strings of length n over alphabet A
RECURSIVE Strings(_, _)
Strings(A, n) ==
  IF n = 0 THEN {<<>>}
  ELSE {Append(t, c) : t \in Strings(A, n - 1), c \in A}

\* all sequences over S of length at most n
SeqsUpTo(S, n) == UNION {[1 .. m -> S] : m \in 0 .. n}

\* the least element of a non-empty set of integers
Least(S) == CHOOSE i \in S : \A j \in S : i <= j

\* str(i) for a non-negative integer
RECURSIVE str(_)
str(i) == IF i < 10 THEN <<i>> ELSE Append(str(i \div 10), i % 10)

RECURSIVE Pow(_, _)
Pow(b, e) == IF e = 0 THEN 1 ELSE b * Pow(b, e - 1)

\* ----------------------------------------------------------------- digest
DigestMod == Pow(NumHex, DIGEST_LEN)

\* the n low-order hex digits of h, most significant first
RECURSIVE hexdigest(_, _)
hexdigest(h, n) ==
  IF n = 0 THEN <<>> ELSE Append(hexdigest(h \div NumHex, n - 1), h % NumHex)

\* a fixed deterministic mixing of the bytes of s
RECURSIVE mix(_, _)
mix(s, h) ==
  IF s = <<>> THEN h
  ELSE mix(Tail(s), (h * 13 + Head(s) * 7 + Len(s) + 2) % DigestMod)

\* hashlib.md5(s.encode()).hexdigest()
md5(s) == hexdigest(mix(s, 7), DIGEST_LEN)

\* the strings generate_random_seed can return: SEED_LEN hex characters
SeedSpace == {hexdigest(i, SEED_LEN) : i \in 0 .. (NumSeeds - 1)}

\* the seeds a long run of ensure_cpu_seeds samples
RunSeeds == {hexdigest(i, SEED_LEN) : i \in 0 .. MaxRecords}

\* result = md5(result) repeated k times                 (hashcacher.py)
RECURSIVE iterate_plain(_, _)
iterate_plain(result, k) ==
  IF k = 0 THEN result ELSE iterate_plain(md5(result), k - 1)

\* result = md5(f"{result}_{i}") for i in range(k)        (server.py, test.py)
RECURSIVE iterate_indexed(_, _, _)
iterate_indexed(result, i, k) ==
  IF i >= k THEN result
  ELSE iterate_indexed(md5(result \o <<UNDERSCORE>> \o str(i)), i + 1, k)

\* tables of the two iterations over the seed space
PlainTable ==
  [k \in 0 .. (MaxIter + 1) |-> [s \in SeedSpace \cup RunSeeds |-> iterate_plain(s, k)]]

IndexedTable == [k \in 0 .. (MaxIter + 1) |-> [s \in SeedSpace |-> iterate_indexed(s, 0, k)]]

\* HashCacher.hash_cpu_seed with self.cpu_iterations = k
hash_cpu_seed(seed, k) == Prefix(PlainTable[k][seed], PAGE_ID_LENGTH)

\* HashCacher.hash_core_seed with self.core_iterations = k
hash_core_seed(seed, k) == PlainTable[k][seed][1]

\* ------------------------------------------------------------ dictionaries
\* A dict is the sequence of its <<key, value>> items in insertion order.
DictKeys(d) == {d[i][1] : i \in 1 .. Len(d)}

DictValues(d) == {d[i][2] : i \in 1 .. Len(d)}

DictGet(d, k) == d[CHOOSE i \in 1 .. Len(d) : d[i][1] = k][2]

\* d[k] = v
DictSet(d, k, v) ==
  IF k \in DictKeys(d)
  THEN [i \in 1 .. Len(d) |-> IF d[i][1] = k THEN <<k, v>> ELSE d[i]]
  ELSE Append(d, <<k, v>>)

\* ------------------------------------------------------------------- state
VARIABLES
  program,          \* which script of the repository is running
  \* hashcacher.py: a HashCacher instance and its cache file
  cpu_seeds,        \* self.cpu_seeds: dict seed -> page id
  core_seeds,       \* self.core_seeds: dict char -> list of seeds
  cpu_iterations,   \* self.cpu_iterations
  core_iterations,  \* self.core_iterations
  cache_file,       \* content of self.cache_file on disk, or NoFile
  disk_ok,          \* FALSE when writing the cache file fails (disk full, permissions)
  temp_file,        \* content of f"{self.cache_file}.tmp" on disk, or NoFile
  serving,          \* TRUE once the generated cache is used to issue seeds
  used_seeds,       \* the reservation set the caller passes to the issuing methods
  pc,               \* "idle", or the loop a running call is in
  locals,           \* local variables of the running call
  op,               \* name of the running call, or of the last one that returned
  args,             \* its arguments
  ret,              \* its return value: NoResult, Bool(b) or List(l)
  raised,           \* TRUE when it ended by raising an exception
  filed,            \* history: the <<char, seed>> pairs the call appended to buckets
  \* server.py: module globals and request threads
  config,           \* the values derived from config.py at startup
  CPU_SEED_POOL,    \* dict seed -> page id
  CORE_SEED_POOL,   \* dict seed -> character
  USED_CPU_SEEDS,
  USED_CORE_SEEDS,
  threads,          \* per request thread: its position in a seed-issuing call
  issued,           \* history: how often each seed was returned, per kind of call
  PAGES,            \* list of pages (page_id, type, url)
  GRAPH             \* dict page id -> entry with links and link_count

cacherVars == <<cpu_seeds, core_seeds, cpu_iterations, core_iterations,
                cache_file, disk_ok, temp_file, serving, used_seeds, pc, locals>>

callVars == <<op, args, ret, raised, filed>>

serverVars == <<config, CPU_SEED_POOL, CORE_SEED_POOL, USED_CPU_SEEDS,
                USED_CORE_SEEDS, threads, issued, PAGES, GRAPH>>

vars == <<program, cacherVars, callVars, serverVars>>

\* the values of `args` and `ret`: a call without arguments, a call that has
\* not returned a value, a returned bool, a returned list
NoArgs == [none |-> TRUE]

NoResult == [none |-> TRUE]

Bool(b) == [bool |-> b]

List(l) == [list |-> l]

NoFile == [exists |-> FALSE]

NoLocals == [none |-> TRUE]

NoConfig == [none |-> TRUE]

Threads == {1, 2}

IdleThread == [pc |-> "idle"]

Kinds == {"cpu", "core"}

\* the server globals while another script runs
ServerUnused ==
  /\ config = NoConfig
  /\ CPU_SEED_POOL = <<>>
  /\ CORE_SEED_POOL = <<>>
  /\ USED_CPU_SEEDS = {}
  /\ USED_CORE_SEEDS = {}
  /\ threads = [t \in Threads |-> IdleThread]
  /\ issued = [k \in Kinds |-> [s \in SeedSpace |-> 0]]
  /\ PAGES = <<>>
  /\ GRAPH = <<>>

EmptyBuckets == [c \in {} |-> <<>>]

\* the json object save_cache dumps
Snapshot ==
  [exists |-> TRUE,
   cpu_seeds |-> cpu_seeds,
   core_seeds |-> core_seeds,
   cpu_iterations |-> cpu_iterations,
   core_iterations |-> core_iterations,
   page_id_length |-> PAGE_ID_LENGTH]

\* a cache file left by an earlier run under other iteration costs
PriorRunFile ==
  LET kc == CPU_PAGE_ITERATIONS - 1
      kr == CORE_PAGE_ITERATIONS_PER_CHAR + 1
      s0 == hexdigest(0, SEED_LEN)
  IN [exists |-> TRUE,
      cpu_seeds |-> << <<s0, hash_cpu_seed(s0, kc)>> >>,
      core_seeds |-> [c \in HexChars |->
                        LET S == {s \in SeedSpace : hash_core_seed(s, kr) = c}
                        IN IF S = {} THEN <<>> ELSE <<CHOOSE s \in S : TRUE>>],
      cpu_iterations |-> kc,
      core_iterations |-> kr,
      page_id_length |-> PAGE_ID_LENGTH]

\* a cache file left by a run that was stopped after a periodic save of
\* ensure_cpu_seeds (hashcacher.py:164-165), before any core seed was filed
InterruptedRunFile ==
  LET s0 == hexdigest(0, SEED_LEN)
  IN [exists |-> TRUE,
      cpu_seeds |-> << <<s0, hash_cpu_seed(s0, CPU_PAGE_ITERATIONS)>> >>,
      core_seeds |-> EmptyBuckets,
      cpu_iterations |-> CPU_PAGE_ITERATIONS,
      core_iterations |-> CORE_PAGE_ITERATIONS_PER_CHAR,
      page_id_length |-> PAGE_ID_LENGTH]

\* a cache file left by an earlier run under a longer PAGE_ID_LENGTH
OtherLengthFile ==
  LET s0 == hexdigest(0, SEED_LEN)
      n == PAGE_ID_LENGTH + 1
  IN [exists |-> TRUE,
      cpu_seeds |-> << <<s0, Prefix(PlainTable[CPU_PAGE_ITERATIONS][s0], n)>> >>,
      core_seeds |-> EmptyBuckets,
      cpu_iterations |-> CPU_PAGE_ITERATIONS,
      core_iterations |-> CORE_PAGE_ITERATIONS_PER_CHAR,
      page_id_length |-> n]

\* HashCacher.__init__
InitHashCacher ==
  /\ program = "hashcacher"
  /\ cpu_seeds = <<>>
  /\ core_seeds = EmptyBuckets
  /\ cpu_iterations = CPU_PAGE_ITERATIONS
  /\ core_iterations = CORE_PAGE_ITERATIONS_PER_CHAR
  /\ cache_file \in {NoFile, PriorRunFile, InterruptedRunFile, OtherLengthFile}
  /\ disk_ok \in BOOLEAN
  /\ temp_file = NoFile
  /\ serving = FALSE
  /\ used_seeds = {}
  /\ pc = "idle"
  /\ locals = NoLocals
  /\ op = "__init__"
  /\ args = NoArgs
  /\ ret = NoResult
  /\ raised = FALSE
  /\ filed = {}
  /\ ServerUnused

Idle == program = "hashcacher" /\ pc = "idle" /\ ~serving

\* ------------------------------------------------------ load_cache, save_cache
\* json.load succeeds on a file that holds a complete dump
Parseable(file) == DOMAIN file = DOMAIN Snapshot

\* a load that reports success for a missing file
MissingFileLoaded == Bool(TRUE)

\* hashcacher.py:37-39: the result of load_cache when the file does not exist
MissingFileResult == Bool(FALSE)

\* HashCacher.load_cache
load_cache ==
  /\ Idle
  /\ op' = "load_cache"
  /\ args' = NoArgs
  /\ raised' = FALSE
  /\ filed' = {}
  /\ IF ~cache_file.exists
     THEN /\ ret' = MissingFileResult
          /\ UNCHANGED <<cpu_seeds, core_seeds, cpu_iterations, core_iterations>>
     ELSE IF ~Parseable(cache_file)
     THEN /\ ret' = Bool(FALSE)
          /\ UNCHANGED <<cpu_seeds, core_seeds, cpu_iterations, core_iterations>>
     ELSE /\ cpu_seeds' = cache_file.cpu_seeds
          /\ core_seeds' = IF DOMAIN cache_file.core_seeds # {}
                           THEN cache_file.core_seeds
                           ELSE core_seeds
          /\ cpu_iterations' = cache_file.cpu_iterations
          /\ core_iterations' = cache_file.core_iterations
          /\ ret' = Bool(TRUE)
  /\ UNCHANGED <<program, serverVars, cache_file, disk_ok, temp_file, serving, used_seeds, pc, locals>>

\* the file content after one save_cache call in the current (primed) memory
Saved(snapshot) == IF disk_ok THEN snapshot ELSE cache_file

\* a save that always reports success
SaveAlwaysTrue == Bool(TRUE)

\* hashcacher.py:96 and 98-100: True after the rename, False from the except branch
SaveResult == Bool(disk_ok)

\* HashCacher.save_cache
save_cache ==
  /\ Idle
  /\ op' = "save_cache"
  /\ args' = NoArgs
  /\ raised' = FALSE
  /\ filed' = {}
  /\ cache_file' = Saved(Snapshot)
  /\ ret' = SaveResult
  /\ UNCHANGED <<program, serverVars, cpu_seeds, core_seeds, cpu_iterations, core_iterations,
                 disk_ok, temp_file, serving, used_seeds, pc, locals>>

\* ------------------------------------------------------------ ensure_cpu_seeds
\* the iteration counts a caller may pass: None or an explicit count
IterArgs == {None} \cup (1 .. MaxIter)

\* a cost check that clears the partition whenever a count is passed
CostCheckClears(k) ==
  [cpu_seeds |-> IF k # None THEN <<>> ELSE cpu_seeds,
   cpu_iterations |-> IF k # None THEN k ELSE CPU_PAGE_ITERATIONS]

\* hashcacher.py:123-130: the cpu_seeds and cpu_iterations after the cost check
CostCheck(k) ==
  IF k # None
  THEN IF k # cpu_iterations
       THEN [cpu_seeds |-> <<>>, cpu_iterations |-> k]
       ELSE [cpu_seeds |-> cpu_seeds, cpu_iterations |-> cpu_iterations]
  ELSE [cpu_seeds |-> cpu_seeds, cpu_iterations |-> CPU_PAGE_ITERATIONS]

\* HashCacher.ensure_cpu_seeds(needed, cpu_iterations): from the call to the
\* early return or to the entry of the generation loop
ensure_cpu_seeds(needed, k) ==
  /\ Idle
  /\ op' = "ensure_cpu_seeds"
  /\ args' = [needed |-> needed, cpu_iterations |-> k]
  /\ raised' = FALSE
  /\ filed' = {}
  /\ cpu_seeds' = CostCheck(k).cpu_seeds
  /\ cpu_iterations' = CostCheck(k).cpu_iterations
  /\ IF Len(cpu_seeds') >= needed
     THEN /\ ret' = Bool(TRUE)
          /\ UNCHANGED <<pc, locals>>
     ELSE /\ ret' = NoResult
          /\ pc' = "cpu_loop"
          /\ locals' = [additional_needed |-> needed - Len(cpu_seeds'),
                        generated |-> 0]
  /\ UNCHANGED <<program, serverVars, core_seeds, core_iterations, cache_file, disk_ok, temp_file,
                 serving, used_seeds>>

\* a loop that never skips a sampled seed
SkipNever(seed) == FALSE

\* hashcacher.py:148-149: a sampled seed that is already a key is skipped
SkipSeed(seed) == seed \in DictKeys(cpu_seeds)

\* a loop that saves at its end only
PeriodicSaveNever(generated) == FALSE

\* hashcacher.py:164: `generated % 10 == 0`
PeriodicSave(generated) == generated % SAVE_EVERY = 0

\* one iteration of the generation loop (hashcacher.py:144-165) with the
\* sampled seed; the iteration that completes the loop also runs lines 167-171
cpu_loop_step(seed) ==
  /\ program = "hashcacher"
  /\ pc = "cpu_loop"
  /\ IF SkipSeed(seed)
     THEN UNCHANGED <<cpu_seeds, cache_file, pc, locals, ret>>
     ELSE LET generated == locals.generated + 1
              done == generated >= locals.additional_needed
          IN /\ cpu_seeds' = DictSet(cpu_seeds, seed, hash_cpu_seed(seed, cpu_iterations))
             /\ cache_file' = IF PeriodicSave(generated) \/ done
                              THEN Saved([Snapshot EXCEPT !.cpu_seeds = cpu_seeds'])
                              ELSE cache_file
             /\ IF done
                THEN /\ pc' = "idle"
                     /\ locals' = NoLocals
                     /\ ret' = Bool(TRUE)
                ELSE /\ locals' = [locals EXCEPT !.generated = generated]
                     /\ UNCHANGED <<pc, ret>>
  /\ UNCHANGED <<program, serverVars, core_seeds, cpu_iterations, core_iterations, disk_ok, temp_file,
                 serving, used_seeds, op, args, raised, filed>>

\* hashcacher.py:88-100: whether open, write and rename succeed is decided by the
\* file system at each save; between two calls the disk can fill up or be freed
disk_change ==
  /\ Idle
  /\ disk_ok' = ~disk_ok
  /\ UNCHANGED <<program, serverVars, callVars, cpu_seeds, core_seeds, cpu_iterations,
                 core_iterations, cache_file, temp_file, serving, used_seeds, pc, locals>>

\* ------------------------------------------------ save_cache, one step at a time
\* the keys json.dump writes, in the order of the dict literal (hashcacher.py:77-86)
FileFields == <<"cpu_seeds", "core_seeds", "cpu_iterations", "core_iterations", "page_id_length">>

\* the temporary file after n keys of the dump have reached the disk
TempWith(snapshot, n) ==
  [f \in {"exists"} \cup {FileFields[i] : i \in 1..n} |-> snapshot[f]]

SavePcs == {"save_open", "save_dump"}

\* hashcacher.py:72-86: the dict to dump is built from the instance
save_begin ==
  /\ Idle
  /\ op' = "save_cache"
  /\ args' = NoArgs
  /\ ret' = NoResult
  /\ raised' = FALSE
  /\ filed' = {}
  /\ pc' = "save_open"
  /\ locals' = [snapshot |-> Snapshot, before |-> cache_file, written |-> 0]
  /\ UNCHANGED <<program, serverVars, cpu_seeds, core_seeds, cpu_iterations, core_iterations,
                 cache_file, disk_ok, temp_file, serving, used_seeds>>

\* hashcacher.py:90-91: open(temp_file, 'w') creates or truncates the temporary file
save_open ==
  /\ program = "hashcacher"
  /\ pc = "save_open"
  /\ temp_file' = TempWith(locals.snapshot, 0)
  /\ pc' = "save_dump"
  /\ UNCHANGED <<program, serverVars, callVars, cpu_seeds, core_seeds, cpu_iterations,
                 core_iterations, cache_file, disk_ok, serving, used_seeds, locals>>

\* hashcacher.py:92: json.dump writes the next key to the temporary file
save_dump ==
  /\ program = "hashcacher"
  /\ pc = "save_dump"
  /\ locals.written < Len(FileFields)
  /\ temp_file' = TempWith(locals.snapshot, locals.written + 1)
  /\ locals' = [locals EXCEPT !.written = @ + 1]
  /\ UNCHANGED <<program, serverVars, callVars, cpu_seeds, core_seeds, cpu_iterations,
                 core_iterations, cache_file, disk_ok, serving, used_seeds, pc>>

\* a rename that does not wait for the dump to end
RenameEarly(written) == TRUE

\* hashcacher.py:91-93: the with block is left, and the file closed, once the dump is complete
RenameReady(written) == written = Len(FileFields)

\* hashcacher.py:93-96: os.rename puts the temporary file in the place of the cache file
save_rename ==
  /\ program = "hashcacher"
  /\ pc = "save_dump"
  /\ RenameReady(locals.written)
  /\ disk_ok
  /\ cache_file' = temp_file
  /\ temp_file' = NoFile
  /\ ret' = Bool(TRUE)
  /\ pc' = "idle"
  /\ locals' = NoLocals
  /\ UNCHANGED <<program, serverVars, op, args, raised, filed, cpu_seeds, core_seeds,
                 cpu_iterations, core_iterations, disk_ok, serving, used_seeds>>

\* hashcacher.py:98-100: open, write or rename raises; the except branch returns False
save_fail ==
  /\ program = "hashcacher"
  /\ pc \in SavePcs
  /\ ~disk_ok
  /\ ret' = Bool(FALSE)
  /\ pc' = "idle"
  /\ locals' = NoLocals
  /\ UNCHANGED <<program, serverVars, op, args, raised, filed, cpu_seeds, core_seeds,
                 cpu_iterations, core_iterations, cache_file, disk_ok, temp_file, serving,
                 used_seeds>>

\* the process is killed inside save_cache; only the files survive
crash ==
  /\ program = "hashcacher"
  /\ pc \in SavePcs
  /\ pc' = "crashed"
  /\ UNCHANGED <<program, serverVars, callVars, cpu_seeds, core_seeds, cpu_iterations,
                 core_iterations, cache_file, disk_ok, temp_file, serving, used_seeds, locals>>

\* hashcacher.py:25-32: the next process constructs a new HashCacher over the same files
restart ==
  /\ program = "hashcacher"
  /\ pc = "crashed"
  /\ cpu_seeds' = <<>>
  /\ core_seeds' = EmptyBuckets
  /\ cpu_iterations' = CPU_PAGE_ITERATIONS
  /\ core_iterations' = CORE_PAGE_ITERATIONS_PER_CHAR
  /\ op' = "__init__"
  /\ args' = NoArgs
  /\ ret' = NoResult
  /\ raised' = FALSE
  /\ filed' = {}
  /\ pc' = "idle"
  /\ locals' = NoLocals
  /\ UNCHANGED <<program, serverVars, cache_file, disk_ok, temp_file, serving, used_seeds>>

\* --------------------------------------------------- ensure_core_char_coverage
\* hashcacher.py:178-180: every hex character gets a bucket
WithAllBuckets(buckets) ==
  [c \in (DOMAIN buckets) \cup HexChars |->
     IF c \in DOMAIN buckets THEN buckets[c] ELSE <<>>]

\* a comparison that lets a bucket pass with one seed less
NeedingSeedsLax(buckets) == {c \in HexChars : Len(buckets[c]) < CORE_SEEDS_PER_CHAR - 1}

\* hashcacher.py:183-186
NeedingSeeds(buckets) == {c \in HexChars : Len(buckets[c]) < CORE_SEEDS_PER_CHAR}

\* HashCacher.ensure_core_char_coverage: from the call to the early return or
\* to the entry of the search loop
ensure_core_char_coverage ==
  /\ Idle
  /\ op' = "ensure_core_char_coverage"
  /\ args' = NoArgs
  /\ raised' = FALSE
  /\ filed' = {}
  /\ core_seeds' = WithAllBuckets(core_seeds)
  /\ IF NeedingSeeds(core_seeds') = {}
     THEN /\ ret' = Bool(TRUE)
          /\ UNCHANGED <<pc, locals>>
     ELSE /\ ret' = NoResult
          /\ pc' = "core_loop"
          /\ locals' = [chars_needing_seeds |-> NeedingSeeds(core_seeds')]
  /\ UNCHANGED <<program, serverVars, cpu_seeds, cpu_iterations, core_iterations, cache_file,
                 disk_ok, temp_file, serving, used_seeds>>

\* hashcacher.py:228-229: the characters still needing seeds after target_char
\* received one and now has `count`
StillNeeding(needing, target_char, count) ==
  IF count >= CORE_SEEDS_PER_CHAR THEN needing \ {target_char} ELSE needing

\* a loop condition that never ends the search
LoopGoesOn(needing) == FALSE

\* hashcacher.py:205: `while chars_needing_seeds` ends on the empty list
LoopOver(needing) == needing = {}

\* one iteration of the search loop (hashcacher.py:205-239) with the sampled
\* seed; `elapsed` says whether 10 seconds passed since the last periodic save;
\* the iteration that empties chars_needing_seeds also runs lines 241-247
core_loop_step(seed, elapsed) ==
  /\ program = "hashcacher"
  /\ pc = "core_loop"
  /\ LET target_char == hash_core_seed(seed, core_iterations)
         needing == locals.chars_needing_seeds
         appended == [core_seeds EXCEPT ![target_char] = Append(@, seed)]
     IN IF target_char \in needing
        THEN LET needing2 == StillNeeding(needing, target_char, Len(appended[target_char]))
                 done == LoopOver(needing2)
             IN /\ core_seeds' = appended
                /\ filed' = filed \cup {<<target_char, seed>>}
                /\ cache_file' = IF elapsed \/ done
                                 THEN Saved([Snapshot EXCEPT !.core_seeds = appended])
                                 ELSE cache_file
                /\ IF done
                   THEN /\ pc' = "idle"
                        /\ locals' = NoLocals
                        /\ ret' = Bool(TRUE)
                   ELSE /\ locals' = [chars_needing_seeds |-> needing2]
                        /\ UNCHANGED <<pc, ret>>
        ELSE /\ elapsed = FALSE
             /\ IF Len(core_seeds[target_char]) < CORE_SEEDS_PER_CHAR * CORE_BUCKET_FACTOR
                THEN /\ core_seeds' = appended
                     /\ filed' = filed \cup {<<target_char, seed>>}
                ELSE UNCHANGED <<core_seeds, filed>>
             /\ UNCHANGED <<cache_file, pc, locals, ret>>
  /\ UNCHANGED <<program, serverVars, cpu_seeds, cpu_iterations, core_iterations, disk_ok, temp_file,
                 serving, used_seeds, op, args, raised>>

\* ------------------------------------------------------- HashCacher issuance
\* the page ids a caller may ask seeds for: every hex id of the configured
\* length, an id shorter than that, and an id with a non-hex character
HexIds == Strings(HexChars, PAGE_ID_LENGTH)

OddIds == {<<1>>, <<0, CHAR_Z>>}

\* target lists for CPU issuance: hex ids, with or without a backing seed
CpuTargetLists == SeqsUpTo(HexIds, MaxTargets)

\* target lists for core issuance: a hex id, a short id, an id with a non-hex char
CoreTargetLists == SeqsUpTo({<<1, 0>>} \cup OddIds, MaxTargets)

\* the cache stops growing and is used to answer requests
start_serving ==
  /\ Idle
  /\ serving' = TRUE
  /\ op' = "start_serving"
  /\ args' = NoArgs
  /\ ret' = NoResult
  /\ raised' = FALSE
  /\ filed' = {}
  /\ UNCHANGED <<program, serverVars, cpu_seeds, core_seeds, cpu_iterations,
                 core_iterations, cache_file, disk_ok, temp_file, used_seeds, pc, locals>>

\* hashcacher.py:274: a target without a backing seed
NoBackingSeed(pool, target) == target \notin DictValues(pool)

\* a comparison that accepts every record of the pool
MatchingAny(pool, target) == 1 .. Len(pool)

\* hashcacher.py:281, 289: the positions of the records with `page_id == target`
Matching(pool, target) == {i \in 1 .. Len(pool) : pool[i][2] = target}

\* a fallback that issues nothing when every matching seed is used
ReissuedNone(pool, any, seeds) == seeds

\* hashcacher.py:286-292: the first record of the target is issued again
Reissued(pool, any, seeds) == Append(seeds, pool[Least(any)][1])

\* hashcacher.py:272-292: the loop over the targets; the result is the seeds
\* list, the used set and whether ValueError was raised
RECURSIVE CpuSeedsFor(_, _, _, _)
CpuSeedsFor(pool, targets, used, seeds) ==
  IF targets = <<>> THEN [seeds |-> seeds, used |-> used, raised |-> FALSE]
  ELSE LET target == Head(targets)
           any == Matching(pool, target)
           unused == {i \in any : pool[i][1] \notin used}
       IN IF NoBackingSeed(pool, target)
          THEN [seeds |-> seeds, used |-> used, raised |-> TRUE]
          ELSE IF unused # {}
          THEN CpuSeedsFor(pool, Tail(targets), used \cup {pool[Least(unused)][1]},
                           Append(seeds, pool[Least(unused)][1]))
          ELSE IF any # {}
          THEN CpuSeedsFor(pool, Tail(targets), used, Reissued(pool, any, seeds))
          ELSE CpuSeedsFor(pool, Tail(targets), used, seeds)

\* HashCacher.get_cpu_seeds_for_targets(target_page_ids, used_seeds); with
\* pass_used = FALSE the caller leaves used_seeds out (None)
cacher_get_cpu_seeds_for_targets(targets, pass_used) ==
  /\ program = "hashcacher" /\ pc = "idle" /\ serving
  /\ LET r == CpuSeedsFor(cpu_seeds, targets, IF pass_used THEN used_seeds ELSE {}, <<>>)
     IN /\ op' = "get_cpu_seeds_for_targets"
        /\ args' = [targets |-> targets, pass_used |-> pass_used]
        /\ raised' = r.raised
        /\ ret' = IF r.raised THEN NoResult ELSE List(r.seeds)
        /\ used_seeds' = IF pass_used THEN r.used ELSE used_seeds
  /\ filed' = {}
  /\ UNCHANGED <<program, serverVars, cpu_seeds, core_seeds, cpu_iterations, core_iterations,
                 cache_file, disk_ok, temp_file, serving, pc, locals>>

\* hashcacher.py:303-308: the characters whose buckets are indexed for a target
PaddedChars(target) == Prefix(ljust(target, PAGE_ID_LENGTH, 0), PAGE_ID_LENGTH)

\* hashcacher.py:309: self.core_seeds[char] raises KeyError for a missing
\* bucket and random.choice raises IndexError for an empty one
BucketFails(buckets, char) == char \notin DOMAIN buckets \/ buckets[char] = <<>>

CoreRaises(buckets, targets) ==
  \E j \in 1 .. Len(targets) :
    \E i \in 1 .. PAGE_ID_LENGTH : BucketFails(buckets, PaddedChars(targets[j])[i])

\* a draw that takes the seeds of the first bucket for every character
RECURSIVE ChoiceListsFirst(_, _)
ChoiceListsFirst(buckets, cs) ==
  IF cs = <<>> THEN {<<>>}
  ELSE {<<seed>> \o rest : seed \in Range(buckets[0]),
                           rest \in ChoiceListsFirst(buckets, Tail(cs))}

\* the hex-seed lists the random.choice calls can build for the characters cs
RECURSIVE ChoiceLists(_, _)
ChoiceLists(buckets, cs) ==
  IF cs = <<>> THEN {<<>>}
  ELSE {<<seed>> \o rest : seed \in Range(buckets[Head(cs)]),
                           rest \in ChoiceLists(buckets, Tail(cs))}

\* hashcacher.py:311-312: a list is kept when it has PAGE_ID_LENGTH seeds
KeptLists(hex_seeds) == IF Len(hex_seeds) = PAGE_ID_LENGTH THEN <<hex_seeds>> ELSE <<>>

\* the results the loop over the targets (hashcacher.py:302-312) can build
RECURSIVE HexSeedLists(_, _)
HexSeedLists(buckets, targets) ==
  IF targets = <<>> THEN {<<>>}
  ELSE {KeptLists(hex_seeds) \o rest :
          hex_seeds \in ChoiceLists(buckets, PaddedChars(Head(targets))),
          rest \in HexSeedLists(buckets, Tail(targets))}

\* HashCacher.get_core_seeds_for_targets(target_page_ids, used_seeds)
cacher_get_core_seeds_for_targets(targets, pass_used) ==
  /\ program = "hashcacher" /\ pc = "idle" /\ serving
  /\ op' = "get_core_seeds_for_targets"
  /\ args' = [targets |-> targets, pass_used |-> pass_used]
  /\ filed' = {}
  /\ IF CoreRaises(core_seeds, targets)
     THEN /\ raised' = TRUE
          /\ ret' = NoResult
     ELSE /\ raised' = FALSE
          /\ ret' \in {List(l) : l \in HexSeedLists(core_seeds, targets)}
  /\ UNCHANGED <<program, serverVars, cacherVars>>

\* a HashCacher on a machine without a cache file and with a writable disk
InitFreshCacher == InitHashCacher /\ cache_file = NoFile /\ disk_ok

\* ====================================================================== server.py
QUAD == 4                \* server.py:137-155: a seed group has 4 seeds
ATTEMPTS_PER_SEED == 10  \* server.py:61, 93: max_attempts = needed * 10

\* the hashcacher state while another script runs
CacherUnused ==
  /\ cpu_seeds = <<>>
  /\ core_seeds = EmptyBuckets
  /\ cpu_iterations = CPU_PAGE_ITERATIONS
  /\ core_iterations = CORE_PAGE_ITERATIONS_PER_CHAR
  /\ cache_file = NoFile
  /\ disk_ok = TRUE
  /\ temp_file = NoFile
  /\ serving = FALSE
  /\ used_seeds = {}
  /\ op = "__init__"
  /\ args = NoArgs
  /\ ret = NoResult
  /\ raised = FALSE
  /\ filed = {}

cacherState == <<cpu_seeds, core_seeds, cpu_iterations, core_iterations,
                 cache_file, disk_ok, temp_file, serving, used_seeds>>

\* the control point of module initialisation once the loop at `at` is over
AfterPools(at, cfg) ==
  IF at = "start" /\ cfg.cpu_needed > 0 THEN "cpu_pool"
  ELSE IF at \in {"start", "cpu_pool"} /\ cfg.core_needed > 0 THEN "core_pool"
  ELSE "pools_done"

PoolLocals == [seeds_generated |-> 0, attempts |-> 0]

\* server.py at import time, before the seed pools are computed; cfg holds the
\* values the module derives from config.py
InitServer(cfg) ==
  /\ program = "server"
  /\ config = cfg
  /\ CPU_SEED_POOL = <<>>
  /\ CORE_SEED_POOL = <<>>
  /\ USED_CPU_SEEDS = {}
  /\ USED_CORE_SEEDS = {}
  /\ threads = [t \in Threads |-> IdleThread]
  /\ issued = [k \in Kinds |-> [s \in SeedSpace |-> 0]]
  /\ PAGES = <<>>
  /\ GRAPH = <<>>
  /\ pc = AfterPools("start", cfg)
  /\ locals = IF pc = "pools_done" THEN NoLocals ELSE PoolLocals
  /\ CacherUnused

\* a hash that leaves the iteration index out of the digest
server_cpu_hash_plain(seed) == Prefix(PlainTable[CPU_PAGE_ITERATIONS][seed], PAGE_ID_LENGTH)

\* server.py:68-72: the page id a seed hashes to
server_cpu_hash(seed) == Prefix(IndexedTable[CPU_PAGE_ITERATIONS][seed], PAGE_ID_LENGTH)

\* server.py:100-104: the character a seed hashes to
server_core_hash(seed) == IndexedTable[CORE_PAGE_ITERATIONS_PER_CHAR][seed][1]

\* one iteration of the loop of compute_cpu_seed_pools (server.py:63-77)
compute_cpu_seed_pools_step(seed) ==
  /\ program = "server"
  /\ pc = "cpu_pool"
  /\ LET attempts == locals.attempts + 1
         fresh == seed \notin DictKeys(CPU_SEED_POOL)
         seeds_generated == locals.seeds_generated + (IF fresh THEN 1 ELSE 0)
     IN /\ CPU_SEED_POOL' = IF fresh
                            THEN DictSet(CPU_SEED_POOL, seed, server_cpu_hash(seed))
                            ELSE CPU_SEED_POOL
        /\ IF seeds_generated < config.cpu_needed
              /\ attempts < config.cpu_needed * ATTEMPTS_PER_SEED
           THEN /\ locals' = [seeds_generated |-> seeds_generated, attempts |-> attempts]
                /\ UNCHANGED pc
           ELSE /\ pc' = AfterPools("cpu_pool", config)
                /\ locals' = IF pc' = "pools_done" THEN NoLocals ELSE PoolLocals
  /\ UNCHANGED <<program, config, CORE_SEED_POOL, USED_CPU_SEEDS, USED_CORE_SEEDS,
                 threads, issued, PAGES, GRAPH, cacherState, callVars>>

\* one iteration of the loop of compute_core_seed_pools (server.py:95-109)
compute_core_seed_pools_step(seed) ==
  /\ program = "server"
  /\ pc = "core_pool"
  /\ LET attempts == locals.attempts + 1
         fresh == seed \notin DictKeys(CORE_SEED_POOL)
         seeds_generated == locals.seeds_generated + (IF fresh THEN 1 ELSE 0)
     IN /\ CORE_SEED_POOL' = IF fresh
                             THEN DictSet(CORE_SEED_POOL, seed, server_core_hash(seed))
                             ELSE CORE_SEED_POOL
        /\ IF seeds_generated < config.core_needed
              /\ attempts < config.core_needed * ATTEMPTS_PER_SEED
           THEN /\ locals' = [seeds_generated |-> seeds_generated, attempts |-> attempts]
                /\ UNCHANGED pc
           ELSE /\ pc' = "pools_done"
                /\ locals' = NoLocals
  /\ UNCHANGED <<program, config, CPU_SEED_POOL, USED_CPU_SEEDS, USED_CORE_SEEDS,
                 threads, issued, PAGES, GRAPH, cacherState, callVars>>

\* ------------------------------------------------------- server seed issuance
\* A request thread runs get_cpu_seeds_for_targets or get_core_seeds_for_targets
\* in steps: each step is one access to the shared USED_* set (the membership
\* test of line 126/145, or the add of line 128/147) followed by the thread's
\* private computation up to its next access.

\* the page ids requests ask seeds for: <<0, 1>> and <<1, 1>>, the second being
\* the one whose padded characters a 4-seed core pool can cover
ServerTargetIds == {<<0, 1>>, <<1, 1>>}

ServerTargetLists == SeqsUpTo(ServerTargetIds, MaxTargets)

\* with several request threads at once, each call asks for at most one target
ConcurrentTargetLists == SeqsUpTo(ServerTargetIds, 1)

Requests == program = "server" /\ pc \in {"pools_done", "ready"}

\* the thread state of a call that returned; used0 is the history of the USED_*
\* set at the time of the call
Returned(kind, targets, used0, result) ==
  [pc |-> "idle", kind |-> kind, targets |-> targets, used0 |-> used0, ret |-> result]

\* an issuing call that does not mark the seed
AddUsedNot(used, seed) == used

\* an issuing call that forgets the seeds marked before
AddUsedOnly(used, seed) == {seed}

\* server.py:128, 147: USED_*.add(seed)
AddUsed(used, seed) == used \cup {seed}

\* history of returned seeds, counting up to 2
RECURSIVE Count(_, _)
Count(seq, x) ==
  IF seq = <<>> THEN 0 ELSE (IF Head(seq) = x THEN 1 ELSE 0) + Count(Tail(seq), x)

RECURSIVE Flatten(_)
Flatten(lists) == IF lists = <<>> THEN <<>> ELSE Head(lists) \o Flatten(Tail(lists))

Record(kind, seeds) ==
  [issued EXCEPT ![kind] = [s \in SeedSpace |-> Min(2, @[s] + Count(seeds, s))]]

\* server.py:121-126: from pool position si of target ti, the next pool item
\* whose page id is the target (the next test of USED_CPU_SEEDS), or the end
RECURSIVE CpuScan(_, _, _, _)
CpuScan(pool, targets, ti, si) ==
  IF ti > Len(targets) THEN [ti |-> ti, si |-> 0]
  ELSE IF targets[ti] \notin DictValues(pool) THEN CpuScan(pool, targets, ti + 1, 1)
  ELSE IF si > Len(pool) THEN CpuScan(pool, targets, ti + 1, 1)
  ELSE IF pool[si][2] = targets[ti] THEN [ti |-> ti, si |-> si]
  ELSE CpuScan(pool, targets, ti, si + 1)

\* the thread state at scan position pos with the seeds collected so far
CpuAt(targets, used0, pos, seeds) ==
  IF pos.ti > Len(targets)
  THEN Returned("cpu", targets, used0, seeds)
  ELSE [pc |-> "cpu_check", kind |-> "cpu", targets |-> targets, used0 |-> used0,
        ti |-> pos.ti, si |-> pos.si, seeds |-> seeds]

ThreadStep(t, state) ==
  /\ threads' = [threads EXCEPT ![t] = state]
  /\ issued' = IF state.pc = "idle"
               THEN Record(state.kind, IF state.kind = "cpu" THEN state.ret ELSE Flatten(state.ret))
               ELSE issued

\* get_cpu_seeds_for_targets(target_page_ids) is called (server.py:116-119)
cpu_call(t, targets) ==
  /\ Requests
  /\ threads[t].pc = "idle"
  /\ ThreadStep(t, CpuAt(targets, USED_CPU_SEEDS,
                         CpuScan(CPU_SEED_POOL, targets, 1, 1), <<>>))
  /\ UNCHANGED <<program, config, CPU_SEED_POOL, CORE_SEED_POOL, USED_CPU_SEEDS,
                 USED_CORE_SEEDS, PAGES, GRAPH, pc, locals, cacherState, callVars>>

\* a test that lets a used seed pass
UnusedAlways(seed, used) == TRUE

\* server.py:126: `seed not in USED_CPU_SEEDS`
Unused(seed, used) == seed \notin used

\* server.py:126: the test of the seed at the scan position
cpu_check(t) ==
  /\ Requests
  /\ threads[t].pc = "cpu_check"
  /\ LET th == threads[t]
         seed == CPU_SEED_POOL[th.si][1]
     IN IF Unused(seed, USED_CPU_SEEDS)
        THEN ThreadStep(t, [th EXCEPT !.pc = "cpu_mark"])
        ELSE ThreadStep(t, CpuAt(th.targets, th.used0,
                                 CpuScan(CPU_SEED_POOL, th.targets, th.ti, th.si + 1),
                                 th.seeds))
  /\ UNCHANGED <<program, config, CPU_SEED_POOL, CORE_SEED_POOL, USED_CPU_SEEDS,
                 USED_CORE_SEEDS, PAGES, GRAPH, pc, locals, cacherState, callVars>>

\* server.py:127-129: seeds.append(seed); USED_CPU_SEEDS.add(seed); break
cpu_mark(t) ==
  /\ Requests
  /\ threads[t].pc = "cpu_mark"
  /\ LET th == threads[t]
         seed == CPU_SEED_POOL[th.si][1]
     IN /\ USED_CPU_SEEDS' = AddUsed(USED_CPU_SEEDS, seed)
        /\ ThreadStep(t, CpuAt(th.targets, th.used0,
                               CpuScan(CPU_SEED_POOL, th.targets, th.ti + 1, 1),
                               Append(th.seeds, seed)))
  /\ UNCHANGED <<program, config, CPU_SEED_POOL, CORE_SEED_POOL, USED_CORE_SEEDS,
                 PAGES, GRAPH, pc, locals, cacherState, callVars>>

\* server.py:137-138, 142: the characters a seed group is built for
QuadChars(target) == Prefix(IF Len(target) < QUAD THEN ljust(target, QUAD, 0) ELSE target, QUAD)

\* server.py:155-156: a complete group is appended to seed_groups
WithQuad(seed_groups, quad) ==
  IF Len(quad) = QUAD THEN Append(seed_groups, quad) ELSE seed_groups

\* server.py:136-156: from pool position si of character ci of target ti, the
\* next pool item whose character is wanted (the next test of USED_CORE_SEEDS)
RECURSIVE CoreScan(_, _, _, _, _, _, _)
CoreScan(pool, targets, ti, ci, si, quad, seed_groups) ==
  IF ti > Len(targets)
  THEN [ti |-> ti, ci |-> 0, si |-> 0, quad |-> <<>>, seed_groups |-> seed_groups]
  ELSE IF ci > Len(QuadChars(targets[ti])) \/ si > Len(pool)
  THEN CoreScan(pool, targets, ti + 1, 1, 1, <<>>, WithQuad(seed_groups, quad))
  ELSE IF pool[si][2] = QuadChars(targets[ti])[ci]
  THEN [ti |-> ti, ci |-> ci, si |-> si, quad |-> quad, seed_groups |-> seed_groups]
  ELSE CoreScan(pool, targets, ti, ci, si + 1, quad, seed_groups)

CoreAt(targets, used0, pos) ==
  IF pos.ti > Len(targets)
  THEN Returned("core", targets, used0, pos.seed_groups)
  ELSE [pc |-> "core_check", kind |-> "core", targets |-> targets, used0 |-> used0,
        ti |-> pos.ti, ci |-> pos.ci, si |-> pos.si,
        quad |-> pos.quad, seeds |-> pos.seed_groups]

\* get_core_seeds_for_targets(target_page_ids) is called (server.py:132-134)
core_call(t, targets) ==
  /\ Requests
  /\ threads[t].pc = "idle"
  /\ ThreadStep(t, CoreAt(targets, USED_CORE_SEEDS,
                          CoreScan(CORE_SEED_POOL, targets, 1, 1, 1, <<>>, <<>>)))
  /\ UNCHANGED <<program, config, CPU_SEED_POOL, CORE_SEED_POOL, USED_CPU_SEEDS,
                 USED_CORE_SEEDS, PAGES, GRAPH, pc, locals, cacherState, callVars>>

\* server.py:145: `seed not in USED_CORE_SEEDS`
core_check(t) ==
  /\ Requests
  /\ threads[t].pc = "core_check"
  /\ LET th == threads[t]
         seed == CORE_SEED_POOL[th.si][1]
     IN IF seed \notin USED_CORE_SEEDS
        THEN ThreadStep(t, [th EXCEPT !.pc = "core_mark"])
        ELSE ThreadStep(t, CoreAt(th.targets, th.used0,
                                  CoreScan(CORE_SEED_POOL, th.targets, th.ti, th.ci,
                                           th.si + 1, th.quad, th.seeds)))
  /\ UNCHANGED <<program, config, CPU_SEED_POOL, CORE_SEED_POOL, USED_CPU_SEEDS,
                 USED_CORE_SEEDS, PAGES, GRAPH, pc, locals, cacherState, callVars>>

\* server.py:146-149: quad.append(seed); USED_CORE_SEEDS.add(seed); break
core_mark(t) ==
  /\ Requests
  /\ threads[t].pc = "core_mark"
  /\ LET th == threads[t]
         seed == CORE_SEED_POOL[th.si][1]
     IN /\ USED_CORE_SEEDS' = AddUsed(USED_CORE_SEEDS, seed)
        /\ ThreadStep(t, CoreAt(th.targets, th.used0,
                                CoreScan(CORE_SEED_POOL, th.targets, th.ti, th.ci + 1, 1,
                                         Append(th.quad, seed), th.seeds)))
  /\ UNCHANGED <<program, config, CPU_SEED_POOL, CORE_SEED_POOL, USED_CPU_SEEDS,
                 PAGES, GRAPH, pc, locals, cacherState, callVars>>

\* ----------------------------------------------------- page ids and page types
\* the ids generate_page_ids can draw: the hex ids and one id with a letter
\* outside the hex alphabet
IdSpace == HexIds \cup {<<CHAR_Z, 0>>}

\* all duplicate-free lists over S with n elements
InjectiveSeqs(S, n) == {q \in [1 .. n -> S] : \A i, j \in 1 .. n : i # j => q[i] # q[j]}

\* generate_page_ids(count): `count` distinct ids, in the order of list(set)
generate_page_ids(count) == InjectiveSeqs(IdSpace, count)

\* "/api/{page_id}" and "/api/delay/{page_id}" as the list of path segments
RegularUrl(page_id) == <<"api", page_id>>

DelayUrl(page_id) == <<"api", "delay", page_id>>

\* link.split('/')[-1]
UrlPageId(url) == url[Len(url)]

\* server.py:181-183, 239-241: the ids made of consecutive groups of 4 core chars
RECURSIVE CoreGroupIds(_)
CoreGroupIds(chars) ==
  IF Len(chars) < QUAD THEN <<>>
  ELSE <<SubSeq(chars, 1, QUAD)>> \o CoreGroupIds(SubSeq(chars, QUAD + 1, Len(chars)))

PoolValues(pool) == [i \in 1 .. Len(pool) |-> pool[i][2]]

\* server.py:199-221: the page types, in list order, with the counters so far
RECURSIVE AssignTypes(_, _, _, _)
AssignTypes(page_ids, cfg, counts, pages) ==
  IF page_ids = <<>> THEN pages
  ELSE LET page_id == Head(page_ids)
           type ==
             IF page_id \in DictValues(CPU_SEED_POOL) /\ counts.cpu < cfg.cpu_count
               THEN "cpu"
             ELSE IF page_id \in Range(CoreGroupIds(PoolValues(CORE_SEED_POOL)))
                     /\ counts.core < cfg.core_count
               THEN "core"
             ELSE IF counts.failure < cfg.failure_count THEN "failure"
             ELSE IF counts.delay < cfg.delay_count THEN "delay"
             ELSE "regular"
       IN AssignTypes(Tail(page_ids), cfg,
                      IF type = "regular" THEN counts ELSE [counts EXCEPT ![type] = @ + 1],
                      Append(pages, [page_id |-> page_id, type |-> type,
                                     url |-> RegularUrl(page_id)]))

\* server.py assign_page_types(page_ids)
assign_page_types(page_ids, cfg) ==
  AssignTypes(page_ids, cfg, [cpu |-> 0, core |-> 0, failure |-> 0, delay |-> 0], <<>>)

\* a test that finds no conflict
ConflictNever(additional_ids, existing_page_ids) == FALSE

\* server.py:253: any(pid in existing_page_ids for pid in additional_ids)
Conflict(additional_ids, existing_page_ids) ==
  \E i \in 1 .. Len(additional_ids) : additional_ids[i] \in existing_page_ids

\* server.py:230-260: PAGE_IDS and PAGES are assembled.  `existing` is
\* list(existing_page_ids) in the order the set iterates, `additional_ids` the
\* list the loop of lines 251-254 ends with
assemble_pages ==
  /\ program = "server"
  /\ pc = "pools_done"
  /\ threads = [t \in Threads |-> IdleThread]
  /\ LET existing_page_ids == DictValues(CPU_SEED_POOL)
                              \cup Range(CoreGroupIds(PoolValues(CORE_SEED_POOL)))
         additional_needed == config.TOTAL_PAGES - Cardinality(existing_page_ids)
     IN \E existing \in InjectiveSeqs(existing_page_ids, Cardinality(existing_page_ids)) :
          \E additional_ids \in (IF additional_needed > 0
                                 THEN generate_page_ids(additional_needed)
                                 ELSE {<<>>}) :
            /\ ~Conflict(additional_ids, existing_page_ids)
            /\ PAGES' = assign_page_types(existing \o additional_ids, config)
  /\ pc' = "pages_done"
  /\ UNCHANGED <<program, config, CPU_SEED_POOL, CORE_SEED_POOL, USED_CPU_SEEDS,
                 USED_CORE_SEEDS, threads, issued, GRAPH, locals, cacherState, callVars>>

\* ================================================================= demo_server.py
\* demo_server.py:70-93: PAGE_IDS = generate_page_ids(); every page is a delay
\* page or a regular page, with the url of its type
DemoPages(page_ids, is_delay) ==
  [i \in 1 .. Len(page_ids) |->
     [page_id |-> page_ids[i],
      type |-> IF is_delay[i] THEN "delay" ELSE "regular",
      url |-> IF is_delay[i] THEN DelayUrl(page_ids[i]) ELSE RegularUrl(page_ids[i])]]

\* demo_server.py at import time, after PAGES is assigned (line 93)
InitDemo(cfg) ==
  /\ program = "demo_server"
  /\ config = cfg
  /\ CPU_SEED_POOL = <<>>
  /\ CORE_SEED_POOL = <<>>
  /\ USED_CPU_SEEDS = {}
  /\ USED_CORE_SEEDS = {}
  /\ threads = [t \in Threads |-> IdleThread]
  /\ issued = [k \in Kinds |-> [s \in SeedSpace |-> 0]]
  /\ \E page_ids \in InjectiveSeqs(HexIds, cfg.TOTAL_PAGES) :
       \E is_delay \in [1 .. cfg.TOTAL_PAGES -> BOOLEAN] :
         PAGES = DemoPages(page_ids, is_delay)
  /\ GRAPH = <<>>
  /\ pc = "pages_done"
  /\ locals = NoLocals
  /\ CacherUnused

\* demo_server.py at import time, at the call PAGE_IDS = generate_page_ids()
\* (line 92): the loop of generate_page_ids starts with an empty set
InitDemoIds(cfg) ==
  /\ program = "demo_server"
  /\ config = cfg
  /\ CPU_SEED_POOL = <<>>
  /\ CORE_SEED_POOL = <<>>
  /\ USED_CPU_SEEDS = {}
  /\ USED_CORE_SEEDS = {}
  /\ threads = [t \in Threads |-> IdleThread]
  /\ issued = [k \in Kinds |-> [s \in SeedSpace |-> 0]]
  /\ PAGES = <<>>
  /\ GRAPH = <<>>
  /\ pc = "gen_ids"
  /\ locals = [page_ids |-> {}, count |-> cfg.TOTAL_PAGES]
  /\ CacherUnused

\* one iteration of the loop of generate_page_ids (server.py:165-167,
\* demo_server.py:64-66) with the random id; a set keeps one copy of an id
generate_page_ids_step(page_id) ==
  /\ program = "demo_server"
  /\ pc = "gen_ids"
  /\ Cardinality(locals.page_ids) < locals.count
  /\ locals' = [locals EXCEPT !.page_ids = @ \cup {page_id}]
  /\ UNCHANGED <<program, serverVars, cacherState, callVars, pc>>

\* the loop condition fails: generate_page_ids returns list(page_ids)
\* (demo_server.py:68) and assign_page_types builds PAGES (lines 70-93)
generate_page_ids_return ==
  /\ program = "demo_server"
  /\ pc = "gen_ids"
  /\ Cardinality(locals.page_ids) >= locals.count
  /\ \E page_ids \in InjectiveSeqs(locals.page_ids, Cardinality(locals.page_ids)) :
       \E is_delay \in [1 .. Len(page_ids) -> BOOLEAN] :
         PAGES' = DemoPages(page_ids, is_delay)
  /\ pc' = "pages_done"
  /\ locals' = NoLocals
  /\ UNCHANGED <<program, config, CPU_SEED_POOL, CORE_SEED_POOL, USED_CPU_SEEDS,
                 USED_CORE_SEEDS, threads, issued, GRAPH, cacherState, callVars>>

\* ===================================================================== build_graph
\* (server.py:279-335 and demo_server.py:118-172)
MAX_ATTEMPTS_EDGE_GENERATION == 3
ADDITIONAL_EDGES == 2

\* server.py:314-315 / demo_server.py:156: the number of edges to add to the tree
EdgesWanted ==
  IF program = "server"
  THEN config.TOTAL_PAGES * config.AVG_LINKS_PER_PAGE - (config.TOTAL_PAGES - 1)
  ELSE ADDITIONAL_EDGES

PageIds == {PAGES[i].page_id : i \in 1 .. Len(PAGES)}

\* a tree loop that stops one page early
AfterTreeShort(pages_not_added) ==
  IF Len(pages_not_added) > 1 THEN "tree"
  ELSE IF 0 < EdgesWanted /\ 0 < MAX_ATTEMPTS_EDGE_GENERATION THEN "dense"
  ELSE "count"

\* the control point after the tree loop, after the densification loop
AfterTree(pages_not_added) ==
  IF pages_not_added # <<>> THEN "tree"
  ELSE IF 0 < EdgesWanted /\ 0 < MAX_ATTEMPTS_EDGE_GENERATION THEN "dense"
  ELSE "count"

\* server.py:283-296: every page gets an empty entry; the tree starts at PAGES[0]
build_graph_begin ==
  /\ program \in {"server", "demo_server"}
  /\ pc = "pages_done"
  /\ GRAPH' = [id \in PageIds |->
                 [page_type |-> PAGES[CHOOSE i \in 1 .. Len(PAGES) : PAGES[i].page_id = id].type,
                  links |-> <<>>, link_count |-> 0]]
  /\ IF PAGES = <<>>
     THEN /\ raised' = TRUE
          /\ pc' = "crashed"
          /\ UNCHANGED locals
     ELSE /\ raised' = FALSE
          /\ pc' = AfterTree(Tail(PAGES))
          /\ locals' = [pages_in_tree |-> <<PAGES[1]>>, pages_not_added |-> Tail(PAGES),
                        edges_added |-> 0, attempts |-> 0]
  /\ UNCHANGED <<program, config, CPU_SEED_POOL, CORE_SEED_POOL, USED_CPU_SEEDS,
                 USED_CORE_SEEDS, threads, issued, PAGES, cacherState, op, args, ret, filed>>

\* an append that is lost
AddLinkNone(graph, source_id, url) == graph

\* server.py:307: GRAPH[source_id]["links"].append(url)
AddLink(graph, source_id, url) ==
  [graph EXCEPT ![source_id].links = Append(@, url)]

\* one iteration of the tree loop (server.py:299-310) with the random source
tree_step(source) ==
  /\ program \in {"server", "demo_server"}
  /\ pc = "tree"
  /\ source \in 1 .. Len(locals.pages_in_tree)
  /\ LET source_page == locals.pages_in_tree[source]
         new_page == Head(locals.pages_not_added)
     IN /\ GRAPH' = AddLink(GRAPH, source_page.page_id, new_page.url)
        /\ locals' = [locals EXCEPT !.pages_in_tree = Append(@, new_page),
                                    !.pages_not_added = Tail(@)]
        /\ pc' = AfterTree(Tail(locals.pages_not_added))
  /\ UNCHANGED <<program, config, CPU_SEED_POOL, CORE_SEED_POOL, USED_CPU_SEEDS,
                 USED_CORE_SEEDS, threads, issued, PAGES, cacherState, callVars>>

\* choose_target_page: server.py:275-277 picks among all pages;
\* demo_server.py:107-116 picks among the regular pages when `biased`
TargetChoices(biased) ==
  LET regular == {i \in 1 .. Len(PAGES) : PAGES[i].type = "regular"}
  IN IF program = "demo_server" /\ biased /\ regular # {}
     THEN regular
     ELSE 1 .. Len(PAGES)

\* a test that lets every attempted edge pass
EdgeAcceptedAlways(graph, source_page, target_page) == TRUE

\* server.py:328: neither a self-loop nor a duplicate edge
EdgeAccepted(graph, source_page, target_page) ==
  /\ source_page.page_id # target_page.page_id
  /\ target_page.url \notin Range(graph[source_page.page_id].links)

\* a loop that runs through its whole attempt budget
DenseIgnoresTarget(edges_added, attempts) == attempts < MAX_ATTEMPTS_EDGE_GENERATION

\* a loop that counts no attempts
DenseUntilEnough(edges_added, attempts) == edges_added < EdgesWanted

\* server.py:319 / demo_server.py:156: the condition of the densification loop
DenseGoesOn(edges_added, attempts) ==
  edges_added < EdgesWanted /\ attempts < MAX_ATTEMPTS_EDGE_GENERATION

\* a counter that takes a rejected attempt for an added edge
EdgesAfterAttempt(edges_added, accepted) == edges_added + 1

\* server.py:328-330 / demo_server.py:165-167: edges_added += 1 in the branch
\* that appends the edge
EdgesAfter(edges_added, accepted) == edges_added + (IF accepted THEN 1 ELSE 0)

\* one iteration of the densification loop (server.py:319-330)
dense_step(source, target, biased) ==
  /\ program \in {"server", "demo_server"}
  /\ pc = "dense"
  /\ source \in 1 .. Len(PAGES)
  /\ target \in TargetChoices(biased)
  /\ LET attempts == locals.attempts + 1
         accepted == EdgeAccepted(GRAPH, PAGES[source], PAGES[target])
         edges_added == EdgesAfter(locals.edges_added, accepted)
     IN /\ GRAPH' = IF accepted
                    THEN AddLink(GRAPH, PAGES[source].page_id, PAGES[target].url)
                    ELSE GRAPH
        /\ locals' = [locals EXCEPT !.attempts = attempts, !.edges_added = edges_added]
        /\ pc' = IF DenseGoesOn(edges_added, attempts) THEN "dense" ELSE "count"
  /\ UNCHANGED <<program, config, CPU_SEED_POOL, CORE_SEED_POOL, USED_CPU_SEEDS,
                 USED_CORE_SEEDS, threads, issued, PAGES, cacherState, callVars>>

\* a count that stays at the value the entry was created with
LinkCountInitial(links) == 0

\* server.py:335 / demo_server.py:172: len(GRAPH[page_id]["links"])
LinkCount(links) == Len(links)

\* server.py:332-335: the link counts are written; build_graph returns
update_link_counts ==
  /\ program \in {"server", "demo_server"}
  /\ pc = "count"
  /\ GRAPH' = [id \in DOMAIN GRAPH |-> [GRAPH[id] EXCEPT !.link_count = LinkCount(GRAPH[id].links)]]
  /\ pc' = "ready"
  /\ locals' = NoLocals
  /\ UNCHANGED <<program, config, CPU_SEED_POOL, CORE_SEED_POOL, USED_CPU_SEEDS,
                 USED_CORE_SEEDS, threads, issued, PAGES, cacherState, callVars>>

\* ===================================================================== serve_page
\* server.py:403-408: link.split('/')[-1] for every link of the page
LinkPageIds(page_id) ==
  [i \in 1 .. Len(GRAPH[page_id].links) |-> UrlPageId(GRAPH[page_id].links[i])]

\* the entry a response is built from, with the keys the handler sets or deletes
\* (server.py:398-434): a CPU or core page loses "links", any other page gets
\* the page ids in their place
PageData(page_id) ==
  IF GRAPH[page_id].page_type \in {"cpu", "core"}
  THEN [page_type |-> GRAPH[page_id].page_type, link_count |-> GRAPH[page_id].link_count]
  ELSE [GRAPH[page_id] EXCEPT !.links = LinkPageIds(page_id)]

\* a handler that works on the GRAPH entry itself
WrittenToEntry(graph, page_id, page_data) == [graph EXCEPT ![page_id] = page_data]

\* server.py:398 / demo_server.py:241: page_data = GRAPH[page_id].copy(); the
\* keys are set and deleted on the copy, and the list of links is only read
WrittenToCopy(graph, page_id, page_data) == graph

\* the response of the request before this one, when it was a CPU or core page
\* whose issuing call has returned
Served(t) ==
  IF op = "serve_page" /\ "kind" \in DOMAIN threads[t]
  THEN {<<threads[t].kind, args.page_id, threads[t].ret>>}
  ELSE {}

\* serve_page(page_id) on request thread t (server.py:379-436); `fails` is the
\* draw random.random() < FAILURE_PAGE_ERROR_RATE.  For a CPU or core page the
\* thread goes on into the issuing function and the response carries its result
serve_page(t, page_id, fails) ==
  /\ program = "server"
  /\ pc = "ready"
  /\ threads[t].pc = "idle"
  /\ op' = "serve_page"
  /\ args' = [page_id |-> page_id]
  /\ raised' = FALSE
  /\ filed' = filed \cup Served(t)
  /\ IF page_id \notin DOMAIN GRAPH
     THEN /\ ret' = [status |-> 404]
          /\ threads' = [threads EXCEPT ![t] = IdleThread]
          /\ UNCHANGED <<issued, GRAPH>>
     ELSE IF GRAPH[page_id].page_type = "failure" /\ fails
     THEN /\ ret' = [status |-> 500]
          /\ threads' = [threads EXCEPT ![t] = IdleThread]
          /\ UNCHANGED <<issued, GRAPH>>
     ELSE IF GRAPH[page_id].page_type = "cpu"
     THEN /\ ret' = [status |-> 200]
          /\ GRAPH' = WrittenToCopy(GRAPH, page_id, PageData(page_id))
          /\ ThreadStep(t, CpuAt(LinkPageIds(page_id), USED_CPU_SEEDS,
                                 CpuScan(CPU_SEED_POOL, LinkPageIds(page_id), 1, 1), <<>>))
     ELSE IF GRAPH[page_id].page_type = "core"
     THEN /\ ret' = [status |-> 200]
          /\ GRAPH' = WrittenToCopy(GRAPH, page_id, PageData(page_id))
          /\ ThreadStep(t, CoreAt(LinkPageIds(page_id), USED_CORE_SEEDS,
                                  CoreScan(CORE_SEED_POOL, LinkPageIds(page_id), 1, 1, 1,
                                           <<>>, <<>>)))
     ELSE /\ ret' = [status |-> 200, links |-> PageData(page_id).links]
          /\ GRAPH' = WrittenToCopy(GRAPH, page_id, PageData(page_id))
          /\ threads' = [threads EXCEPT ![t] = IdleThread]
          /\ UNCHANGED issued
  /\ UNCHANGED <<program, config, CPU_SEED_POOL, CORE_SEED_POOL, USED_CPU_SEEDS,
                 USED_CORE_SEEDS, PAGES, pc, locals, cacherState>>

\* demo_server.py:224-246: serve_page(page_id, expected_type), reached through
\* /api/<page_id> ("regular") and /api/delay/<page_id> ("delay")
demo_serve_page(page_id, expected_type) ==
  /\ program = "demo_server"
  /\ pc = "ready"
  /\ op' = "serve_page"
  /\ args' = [page_id |-> page_id, expected_type |-> expected_type]
  /\ raised' = FALSE
  /\ IF page_id \notin DOMAIN GRAPH
     THEN ret' = [status |-> 404] /\ UNCHANGED GRAPH
     ELSE IF GRAPH[page_id].page_type # expected_type
     THEN ret' = [status |-> 404] /\ UNCHANGED GRAPH
     ELSE /\ ret' = [status |-> 200, links |-> GRAPH[page_id].links]
          /\ GRAPH' = WrittenToCopy(GRAPH, page_id, GRAPH[page_id])
  /\ UNCHANGED <<program, config, CPU_SEED_POOL, CORE_SEED_POOL, USED_CPU_SEEDS,
                 USED_CORE_SEEDS, threads, issued, PAGES, pc, locals, cacherState, filed>>

\* server.py:352-372 / demo_server.py:192-210: the root page is built from
\* PAGES[0] alone; PAGES[0] raises IndexError when there is no page
get_root_page ==
  /\ program \in {"server", "demo_server"}
  /\ pc = "ready"
  /\ threads = [t \in Threads |-> IdleThread]
  /\ op' = "get_root_page"
  /\ args' = NoArgs
  /\ raised' = (PAGES = <<>>)
  /\ ret' = IF PAGES = <<>> THEN [status |-> 500]
            ELSE [status |-> 200,
                  links |-> <<IF program = "server" THEN PAGES[1].page_id ELSE PAGES[1].url>>]
  /\ filed' = filed \cup Served(1)
  /\ UNCHANGED <<program, serverVars, cacherVars>>

\* ================================================================ specifications
\* config values of the page types, probabilities in percent
AVG_LINKS_PER_PAGE == 1
CORE_PAGE_CHARS == 4
FAILURE_PAGE_PROBABILITY == 10
DELAY_PAGE_PROBABILITY == 10

\* int(TOTAL_PAGES * probability)
PageCount(total, percent) == (total * percent) \div 100

\* int(seeds_needed * 1.1): the 10% buffer of calculate_needed_seeds
WithBuffer(seeds_needed) == (seeds_needed * 11) \div 10

\* the values server.py derives from config.py: calculate_needed_seeds
\* (server.py:31-44) and the counts of assign_page_types (server.py:186-189)
ServerConfig(total, cpu_percent, core_percent) ==
  [TOTAL_PAGES |-> total, AVG_LINKS_PER_PAGE |-> AVG_LINKS_PER_PAGE,
   cpu_needed |-> WithBuffer(PageCount(total, cpu_percent) * AVG_LINKS_PER_PAGE),
   core_needed |-> WithBuffer(PageCount(total, core_percent) * AVG_LINKS_PER_PAGE
                                * CORE_PAGE_CHARS),
   cpu_count |-> PageCount(total, cpu_percent),
   core_count |-> PageCount(total, core_percent),
   failure_count |-> PageCount(total, FAILURE_PAGE_PROBABILITY),
   delay_count |-> PageCount(total, DELAY_PAGE_PROBABILITY)]

\* half of the pages are CPU pages: 2 CPU seeds
CpuHeavy == ServerConfig(4, 50, 0)

\* half of the pages are core pages: 4 core seeds
CoreHeavy == ServerConfig(2, 0, 50)

\* one CPU page and one core page: 1 CPU seed and 4 core seeds
Mixed == ServerConfig(2, 50, 50)

DemoConfig(total) == [TOTAL_PAGES |-> total]

\* --- graph construction at the start of server.py and demo_server.py
InitGraph ==
  \/ \E total \in 0 .. MaxPages, cpu_percent \in {0, 50} :
       InitServer(ServerConfig(total, cpu_percent, 0))
  \/ \E total \in 0 .. MaxPages : InitDemo(DemoConfig(total))

NextGraph ==
  \/ \E seed \in SeedSpace : compute_cpu_seed_pools_step(seed)
  \/ assemble_pages
  \/ build_graph_begin
  \/ \E source \in 1 .. MaxPages : tree_step(source)
  \/ \E source \in 1 .. MaxPages, target \in 1 .. MaxPages, biased \in BOOLEAN :
       dense_step(source, target, biased)
  \/ update_link_counts

SpecGraph == InitGraph /\ [][NextGraph]_vars

\* the interpreter runs the module's statements one after the other: a step
\* that can be taken is taken
FairSpecGraph == SpecGraph /\ WF_vars(NextGraph)

\* --- demo_server.py: generate_page_ids for page counts up to one more than the
\* id space holds
InitIds == \E total \in 0 .. Cardinality(IdSpace) + 1 : InitDemoIds(DemoConfig(total))

NextIds ==
  \/ \E page_id \in IdSpace : generate_page_ids_step(page_id)
  \/ generate_page_ids_return

SpecIds == InitIds /\ [][NextIds]_vars

\* random.choices returns every id again and again while the loop runs, and
\* the interpreter goes on to the return statement
FairSpecIds ==
  /\ SpecIds
  /\ \A page_id \in IdSpace : WF_vars(generate_page_ids_step(page_id)
                                       /\ locals'.page_ids # locals.page_ids)
  /\ WF_vars(generate_page_ids_return)

\* --- server.py at import time, from the seed pools to the empty graph, with a
\* CPU page, a core page and up to MaxPages pages in all
InitPages == \E total \in 2 .. MaxPages : InitServer(ServerConfig(total, 50, 50))

NextPages ==
  \/ \E seed \in SeedSpace : compute_cpu_seed_pools_step(seed)
  \/ \E seed \in SeedSpace : compute_core_seed_pools_step(seed)
  \/ assemble_pages
  \/ build_graph_begin

SpecPages == InitPages /\ [][NextPages]_vars

\* --- server.py from import to requests: seed pools, pages, graph, and then
\* requests served one after the other
InitServe == InitServer(ServerConfig(MaxPages, 100, 0))

NextServe ==
  \/ \E seed \in SeedSpace : compute_cpu_seed_pools_step(seed)
  \/ assemble_pages
  \/ build_graph_begin
  \/ \E source \in 1 .. MaxPages : tree_step(source)
  \/ \E source \in 1 .. MaxPages, target \in 1 .. MaxPages, biased \in BOOLEAN :
       dense_step(source, target, biased)
  \/ update_link_counts
  \/ \E page_id \in IdSpace, fails \in BOOLEAN : serve_page(1, page_id, fails)
  \/ cpu_check(1)
  \/ cpu_mark(1)

SpecServe == InitServe /\ [][NextServe]_vars

\* two pages, both CPU pages: 2 CPU seeds
TwoCpu == ServerConfig(2, 100, 0)

\* --- both servers from import to requests: server.py with two CPU pages or
\* with a CPU page and a core page, demo_server.py with up to MaxPages pages
InitRequests ==
  \/ InitServer(TwoCpu)
  \/ InitServer(Mixed)
  \/ \E total \in 1 .. MaxPages : InitDemo(DemoConfig(total))

NextRequests ==
  \/ \E seed \in SeedSpace : compute_cpu_seed_pools_step(seed)
  \/ \E seed \in SeedSpace : compute_core_seed_pools_step(seed)
  \/ assemble_pages
  \/ build_graph_begin
  \/ \E source \in 1 .. MaxPages : tree_step(source)
  \/ \E source \in 1 .. MaxPages, target \in 1 .. MaxPages, biased \in BOOLEAN :
       dense_step(source, target, biased)
  \/ update_link_counts
  \/ \E page_id \in IdSpace \cup PageIds, fails \in BOOLEAN : serve_page(1, page_id, fails)
  \/ cpu_check(1)
  \/ cpu_mark(1)
  \/ core_check(1)
  \/ core_mark(1)
  \/ \E page_id \in IdSpace, expected_type \in {"regular", "delay"} :
       demo_serve_page(page_id, expected_type)
  \/ get_root_page

SpecRequests == InitRequests /\ [][NextRequests]_vars

\* --- HashCacher: growth of the CPU partition, with load and save
NextCpuGen ==
  \/ load_cache
  \/ save_cache
  \/ \E needed \in 0 .. MaxNeeded, k \in IterArgs : ensure_cpu_seeds(needed, k)
  \/ \E seed \in SeedSpace : cpu_loop_step(seed)

SpecCpuGen == InitHashCacher /\ [][NextCpuGen]_vars

\* --- HashCacher: growth of the core partition, with load and save
NextCoreGen ==
  \/ load_cache
  \/ save_cache
  \/ ensure_core_char_coverage
  \/ \E seed \in SeedSpace, elapsed \in BOOLEAN : core_loop_step(seed, elapsed)

SpecCoreGen == InitHashCacher /\ [][NextCoreGen]_vars

\* --- HashCacher: growth of both partitions, called again and again with any
\* arguments, after a load or without one
NextGrow ==
  \/ load_cache
  \/ \E needed \in 0 .. MaxNeeded, k \in IterArgs : ensure_cpu_seeds(needed, k)
  \/ \E seed \in SeedSpace : cpu_loop_step(seed)
  \/ ensure_core_char_coverage
  \/ \E seed \in SeedSpace, elapsed \in BOOLEAN : core_loop_step(seed, elapsed)

SpecGrow == InitHashCacher /\ [][NextGrow]_vars

\* --- HashCacher: long runs of ensure_cpu_seeds, for up to MaxRecords seeds.
\* The generator returns the seeds of RunSeeds one after the other: the next
\* seed sampled is the first one that is not a key of cpu_seeds
long_run_step ==
  /\ Len(cpu_seeds) < MaxRecords
  /\ cpu_loop_step(hexdigest(Len(cpu_seeds), SEED_LEN))

NextLongRun ==
  \/ load_cache
  \/ \E needed \in 0 .. MaxRecords, k \in IterArgs : ensure_cpu_seeds(needed, k)
  \/ long_run_step

SpecLongRun == InitHashCacher /\ [][NextLongRun]_vars

\* --- HashCacher: saves and loads between growth of the core partition, on a
\* disk that fails at some saves and not at others
NextRoundTrip ==
  \/ load_cache
  \/ save_cache
  \/ ensure_core_char_coverage
  \/ \E seed \in SeedSpace, elapsed \in BOOLEAN : core_loop_step(seed, elapsed)
  \/ disk_change

SpecRoundTrip == InitHashCacher /\ [][NextRoundTrip]_vars

\* --- HashCacher.generate_cache, as main() runs it on a new instance
\* hashcacher.py:334
generate_load == op = "__init__" /\ load_cache

\* hashcacher.py:338, TOTAL_PAGES being one of the configured page counts
generate_cpu ==
  /\ op = "load_cache"
  /\ \E TOTAL_PAGES \in 1 .. MaxNeeded : ensure_cpu_seeds(TOTAL_PAGES, CPU_PAGE_ITERATIONS)

\* hashcacher.py:340
generate_core == op = "ensure_cpu_seeds" /\ ensure_core_char_coverage

NextGenerate ==
  \/ generate_load
  \/ generate_cpu
  \/ \E seed \in SeedSpace : cpu_loop_step(seed)
  \/ generate_core
  \/ \E seed \in SeedSpace, elapsed \in BOOLEAN : core_loop_step(seed, elapsed)

SpecGenerate == InitHashCacher /\ [][NextGenerate]_vars

\* --- HashCacher: growth of both partitions with load and save, on a disk that
\* works for the whole run or fails for the whole run
NextPersist ==
  \/ load_cache
  \/ save_cache
  \/ \E needed \in 1 .. MaxNeeded : ensure_cpu_seeds(needed, CPU_PAGE_ITERATIONS)
  \/ \E seed \in SeedSpace : cpu_loop_step(seed)
  \/ ensure_core_char_coverage
  \/ \E seed \in SeedSpace, elapsed \in BOOLEAN : core_loop_step(seed, elapsed)

SpecPersist == InitHashCacher /\ [][NextPersist]_vars

\* --- HashCacher: save_cache step by step, with crashes and restarts
NextSave ==
  \/ load_cache
  \/ \E needed \in 1 .. MaxNeeded : ensure_cpu_seeds(needed, CPU_PAGE_ITERATIONS)
  \/ \E seed \in SeedSpace : cpu_loop_step(seed)
  \/ save_begin
  \/ save_open
  \/ save_dump
  \/ save_rename
  \/ save_fail
  \/ crash
  \/ restart

SpecSave == InitHashCacher /\ [][NextSave]_vars

\* random.choices returns every seed again and again while the search loop runs
FairSampling ==
  \A seed \in SeedSpace : WF_vars(\E elapsed \in BOOLEAN : core_loop_step(seed, elapsed))

FairSpecCoreGen == SpecCoreGen /\ FairSampling

\* --- CPU seed issuance, by a HashCacher and by server.py with one request thread
InitCpuIssue ==
  \/ InitFreshCacher
  \/ InitServer(CpuHeavy)

NextCpuIssue ==
  \/ \E needed \in 0 .. MaxNeeded, k \in IterArgs : ensure_cpu_seeds(needed, k)
  \/ \E seed \in SeedSpace : cpu_loop_step(seed)
  \/ start_serving
  \/ \E targets \in CpuTargetLists, pass_used \in BOOLEAN :
       cacher_get_cpu_seeds_for_targets(targets, pass_used)
  \/ \E seed \in SeedSpace : compute_cpu_seed_pools_step(seed)
  \/ \E targets \in ServerTargetLists : cpu_call(1, targets)
  \/ cpu_check(1)
  \/ cpu_mark(1)

SpecCpuIssue == InitCpuIssue /\ [][NextCpuIssue]_vars

\* --- core seed issuance, by a HashCacher and by server.py with one request thread
InitCoreIssue ==
  \/ InitFreshCacher
  \/ InitServer(CoreHeavy)

NextCoreIssue ==
  \/ ensure_core_char_coverage
  \/ \E seed \in SeedSpace, elapsed \in BOOLEAN : core_loop_step(seed, elapsed)
  \/ start_serving
  \/ \E targets \in CoreTargetLists, pass_used \in BOOLEAN :
       cacher_get_core_seeds_for_targets(targets, pass_used)
  \/ \E seed \in SeedSpace : compute_core_seed_pools_step(seed)
  \/ \E targets \in ServerTargetLists : core_call(1, targets)
  \/ core_check(1)
  \/ core_mark(1)

SpecCoreIssue == InitCoreIssue /\ [][NextCoreIssue]_vars

\* --- server.py: seed issuance by one request thread (calls in series)
PoolSteps ==
  \/ \E seed \in SeedSpace : compute_cpu_seed_pools_step(seed)
  \/ \E seed \in SeedSpace : compute_core_seed_pools_step(seed)

IssueSteps(t, lists) ==
  \/ \E targets \in lists : cpu_call(t, targets)
  \/ cpu_check(t)
  \/ cpu_mark(t)
  \/ \E targets \in lists : core_call(t, targets)
  \/ core_check(t)
  \/ core_mark(t)

InitSeq ==
  \/ InitServer(CpuHeavy)
  \/ InitServer(Mixed)

NextSeq == PoolSteps \/ IssueSteps(1, ServerTargetLists)

SpecSeq == InitSeq /\ [][NextSeq]_vars

\* --- seed issuance of both kinds, by a HashCacher that has grown both
\* partitions and by server.py with one request thread; every call asks for
\* at most one target
InitIssue ==
  \/ InitFreshCacher
  \/ InitServer(Mixed)

NextIssue ==
  \/ \E needed \in 1 .. MaxNeeded : ensure_cpu_seeds(needed, CPU_PAGE_ITERATIONS)
  \/ \E seed \in SeedSpace : cpu_loop_step(seed)
  \/ ensure_core_char_coverage
  \/ \E seed \in SeedSpace, elapsed \in BOOLEAN : core_loop_step(seed, elapsed)
  \/ start_serving
  \/ \E targets \in SeqsUpTo(HexIds, 1), pass_used \in BOOLEAN :
       cacher_get_cpu_seeds_for_targets(targets, pass_used)
  \/ \E targets \in SeqsUpTo(HexIds, 1), pass_used \in BOOLEAN :
       cacher_get_core_seeds_for_targets(targets, pass_used)
  \/ PoolSteps
  \/ IssueSteps(1, ConcurrentTargetLists)

SpecIssue == InitIssue /\ [][NextIssue]_vars

\* --- server.py: seed issuance by two request threads at once
InitConc ==
  \/ InitServer(CpuHeavy)
  \/ InitServer(CoreHeavy)

NextConc == PoolSteps \/ \E t \in Threads : IssueSteps(t, ConcurrentTargetLists)

SpecConc == InitConc /\ [][NextConc]_vars

\* ====================================================================== properties
\* ------------------------------------------------------------------- the graph
\* the page ids a traversal that starts in `seen` reaches over GRAPH[..].links
RECURSIVE ReachFrom(_, _)
ReachFrom(graph, seen) ==
  LET linked == UNION {{UrlPageId(graph[id].links[i]) : i \in 1 .. Len(graph[id].links)} :
                         id \in seen}
  IN IF linked \subseteq seen THEN seen ELSE ReachFrom(graph, seen \cup linked)

GraphBuilt == program \in {"server", "demo_server"} /\ pc = "ready"

\* C1: after build_graph completes on 2 or more pages, every page of PAGES is
\* reachable from PAGES[0] over the edges stored in GRAPH[..]["links"]
C1_AllPagesReachable ==
  (GraphBuilt /\ Len(PAGES) >= 2) => PageIds \subseteq ReachFrom(GRAPH, {PAGES[1].page_id})

\* build_graph has returned for a list of MaxPages pages, in both scripts the
\* last page is linked from a page other than PAGES[0]
C1_Witness ==
  /\ GraphBuilt
  /\ Len(PAGES) = MaxPages
  /\ PAGES[MaxPages].url \notin Range(GRAPH[PAGES[1].page_id].links)
  /\ PageIds \subseteq ReachFrom(GRAPH, {PAGES[1].page_id})

\* C9: every outgoing link target of a page the graph types as cpu has a
\* backing seed in the CPU pool
C9_ForwardAvailability ==
  (program = "server" /\ pc = "ready") =>
    \A id \in DOMAIN GRAPH :
      GRAPH[id].page_type = "cpu" =>
        \A i \in 1 .. Len(GRAPH[id].links) :
          ~ NoBackingSeed(CPU_SEED_POOL, UrlPageId(GRAPH[id].links[i]))

\* ------------------------------------------------- HashCacher: CPU partition
CacherIdle == program = "hashcacher" /\ pc = "idle"

\* C5: after any sequence of load_cache and ensure_cpu_seeds calls every record
\* of cpu_seeds holds target = hash_cpu_seed(seed) under the current
\* cpu_iterations
C5_RecordsMatchCost ==
  CacherIdle =>
    \A i \in 1 .. Len(cpu_seeds) :
      cpu_seeds[i][2] = hash_cpu_seed(cpu_seeds[i][1], cpu_iterations)

EnsureCpuReturned == CacherIdle /\ op = "ensure_cpu_seeds"

\* C6: when ensure_cpu_seeds(needed, k) returns, cpu_seeds holds at least
\* `needed` records and their seeds are pairwise distinct
C6_EnoughDistinctSeeds ==
  EnsureCpuReturned =>
    /\ Len(cpu_seeds) >= args.needed
    /\ \A i, j \in 1 .. Len(cpu_seeds) : cpu_seeds[i][1] = cpu_seeds[j][1] => i = j

\* ensure_cpu_seeds(MaxNeeded, k) returned after its loop produced the records
\* and the final save wrote them
C6_Witness ==
  /\ EnsureCpuReturned
  /\ args.needed = MaxNeeded
  /\ ret = Bool(TRUE)
  /\ Len(cpu_seeds) = MaxNeeded
  /\ cache_file.exists
  /\ cache_file.cpu_seeds = cpu_seeds
  /\ cache_file.cpu_iterations = cpu_iterations

\* ------------------------------------------------ HashCacher: core partition
EnsureCoreReturned == CacherIdle /\ op = "ensure_core_char_coverage"

\* C7: when ensure_core_char_coverage returns, every hex character has a bucket
\* with at least CORE_SEEDS_PER_CHAR seeds, and every seed the call filed under
\* a character hashes to that character
C7_CoverageReached ==
  EnsureCoreReturned =>
    /\ \A c \in HexChars :
         c \in DOMAIN core_seeds /\ Len(core_seeds[c]) >= CORE_SEEDS_PER_CHAR
    /\ \A f \in filed : hash_core_seed(f[2], core_iterations) = f[1]

\* the call returned after filing seeds, one bucket holding more than the minimum
C7_Witness ==
  /\ EnsureCoreReturned
  /\ ret = Bool(TRUE)
  /\ filed # {}
  /\ \E c \in HexChars : Len(core_seeds[c]) > CORE_SEEDS_PER_CHAR

\* every hex character is the hash of some seed the generator can return
Feasible ==
  \A c \in HexChars : \E seed \in SeedSpace : hash_core_seed(seed, core_iterations) = c

\* C8: under fair sampling of seeds the search loop of
\* ensure_core_char_coverage ends and the call returns
C8_CoverageTerminates ==
  (program = "hashcacher" /\ pc = "core_loop" /\ Feasible)
    ~> EnsureCoreReturned

\* the call returned after its loop filed a seed for every hex character
C8_Witness ==
  /\ EnsureCoreReturned
  /\ ret = Bool(TRUE)
  /\ \A c \in HexChars : \E f \in filed : f[1] = c

\* ------------------------------------------------------------- seed issuance
\* request thread t is back from an issuing call of the given kind
ThreadReturned(t, kind) ==
  /\ program = "server"
  /\ threads[t].pc = "idle"
  /\ "kind" \in DOMAIN threads[t]
  /\ threads[t].kind = kind

\* the seeds a returned call handed out
SeedsOf(th) == IF th.kind = "cpu" THEN th.ret ELSE Flatten(th.ret)

UsedSet(kind) == IF kind = "cpu" THEN USED_CPU_SEEDS ELSE USED_CORE_SEEDS

\* C2: two request threads running the issuing functions of server.py at once,
\* under any interleaving of their check and mark steps, never return the same
\* seed
C2_NoSeedIssuedTwice ==
  \A kind \in Kinds : \A seed \in SeedSpace : issued[kind][seed] < 2

\* every seed a returned call handed out was outside the used set of its kind
\* before the call and is inside it afterwards
FreshThenUsed ==
  \A kind \in Kinds :
    ThreadReturned(1, kind) =>
      \A seed \in Range(SeedsOf(threads[1])) :
        seed \notin threads[1].used0 /\ seed \in UsedSet(kind)

C4_SeedsMapToTargets ==
  /\ ThreadReturned(1, "cpu") =>
       \A i \in 1 .. Len(threads[1].ret) :
         /\ threads[1].ret[i] \in DictKeys(CPU_SEED_POOL)
         /\ DictGet(CPU_SEED_POOL, threads[1].ret[i]) \in Range(threads[1].targets)
  /\ (CacherIdle /\ op = "get_cpu_seeds_for_targets" /\ ~raised) =>
       /\ \A i \in 1 .. Len(ret.list) :
            /\ ret.list[i] \in DictKeys(cpu_seeds)
            /\ DictGet(cpu_seeds, ret.list[i]) \in Range(args.targets)
       /\ (\A i \in 1 .. Len(args.targets) : ~ NoBackingSeed(cpu_seeds, args.targets[i])) =>
            /\ Len(ret.list) = Len(args.targets)
            /\ \A i \in 1 .. Len(ret.list) : DictGet(cpu_seeds, ret.list[i]) = args.targets[i]

\* a HashCacher call for MaxTargets different targets returned a seed for each
C4_Witness ==
  /\ CacherIdle
  /\ op = "get_cpu_seeds_for_targets"
  /\ ~raised
  /\ Len(args.targets) = MaxTargets
  /\ Len(ret.list) = MaxTargets
  /\ \A i, j \in 1 .. MaxTargets : i # j => args.targets[i] # args.targets[j]

\* C10: the issuing methods of HashCacher return normally for every target id,
\* also for one without a backing seed
C10_IssuingNeverRaises ==
  (program = "hashcacher"
     /\ op \in {"get_cpu_seeds_for_targets", "get_core_seeds_for_targets"}) => ~raised


\* --------------------------------------------------------- core seed issuance
CacherCoreReturned ==
  CacherIdle /\ op = "get_core_seeds_for_targets" /\ ~raised

\* C11: get_core_seeds_for_targets returns one inner list per requested target
\* and every inner list has PAGE_ID_LENGTH seeds, for any list of target ids
C11_OneListPerTarget ==
  /\ ThreadReturned(1, "core") =>
       /\ Len(threads[1].ret) = Len(threads[1].targets)
       /\ \A j \in 1 .. Len(threads[1].ret) : Len(threads[1].ret[j]) = PAGE_ID_LENGTH
  /\ CacherCoreReturned =>
       /\ Len(ret.list) = Len(args.targets)
       /\ \A j \in 1 .. Len(ret.list) : Len(ret.list[j]) = PAGE_ID_LENGTH

\* the target right-padded with '0' and cut to n characters
Padded(target, n) == Prefix(ljust(target, n, 0), n)

\* the order-preserving choices of Len(kept) positions of 1 .. n
Selections(n, m) ==
  {f \in [1 .. m -> 1 .. n] : \A i, j \in 1 .. m : i < j => f[i] < f[j]}

C13_DrawnSeedsReserved ==
  (CacherCoreReturned /\ args.pass_used) =>
    \A j \in 1 .. Len(ret.list) : Range(ret.list[j]) \subseteq used_seeds


\* ------------------------------------------------------------ the client (test.py)
CLIENT_ID_LENGTH == 4    \* test.py:23: seed[:4]

\* Crawler.q_hashseed run for k iterations on one seed (test.py:20-23)
q_hashseed(seed, k) == Prefix(IndexedTable[k][seed], CLIENT_ID_LENGTH)

\* Crawler.q_quadseed run for k iterations on one seed of a group (test.py:31-34)
q_quadseed_part(seedpart, k) == Prefix(IndexedTable[k][seedpart], 1)

\* C14: the target a producer records for a seed is the target the client
\* derives from the seed with the same number of iterations
C14_ClientDerivesTarget ==
  CacherIdle =>
    \A i \in 1 .. Len(cpu_seeds) :
      cpu_seeds[i][2] = Prefix(q_hashseed(cpu_seeds[i][1], cpu_iterations), PAGE_ID_LENGTH)

\* ---------------------------------------------------------------- C15
InSave == program = "hashcacher" /\ pc \in SavePcs \cup {"crashed"}

\* C15: at every step of save_cache, and after a crash at any point between
\* opening the temporary file and the rename, the cache file holds the complete
\* snapshot saved before (or is still absent) or the complete new snapshot,
\* never a part of one.
C15_SaveIsAtomic ==
  /\ program = "hashcacher" => (~cache_file.exists \/ Parseable(cache_file))
  /\ InSave => cache_file \in {locals.before, locals.snapshot}

C15_Witness ==
  /\ pc = "crashed"
  /\ temp_file.exists
  /\ ~Parseable(temp_file)
  /\ locals.written > 0
  /\ cache_file.exists
  /\ cache_file = locals.before
  /\ locals.snapshot # locals.before

\* ---------------------------------------------------------------- C16
\* C16: save/load round trip: after load_cache has read the file a save_cache
\* wrote, the instance's cpu_seeds, core_seeds, cpu_iterations and
\* core_iterations equal the saved ones, whatever the instance held before.
C16_RoundTrip ==
  (CacherIdle /\ op = "load_cache" /\ ret = Bool(TRUE)) =>
     /\ cpu_seeds = cache_file.cpu_seeds
     /\ core_seeds = cache_file.core_seeds
     /\ cpu_iterations = cache_file.cpu_iterations
     /\ core_iterations = cache_file.core_iterations

\* ---------------------------------------------------------------- C17
\* C17: load_cache on a missing cache file returns False, raises nothing and
\* leaves cpu_seeds, core_seeds, cpu_iterations and core_iterations as they were.
C17_MissingFileTolerated ==
  [][(load_cache /\ ~cache_file.exists) =>
       /\ ret' = Bool(FALSE)
       /\ ~raised'
       /\ UNCHANGED <<cpu_seeds, core_seeds, cpu_iterations, core_iterations>>]_vars

C17_Witness ==
  /\ CacherIdle
  /\ op = "load_cache"
  /\ ret = Bool(FALSE)
  /\ ~cache_file.exists
  /\ cpu_seeds # <<>>
  /\ cpu_iterations # CPU_PAGE_ITERATIONS

\* ---------------------------------------------------------------- C18
\* generate_cache has run load_cache, ensure_cpu_seeds and ensure_core_char_coverage
GenerateDone == CacherIdle /\ op = "ensure_core_char_coverage"

\* C18: after load_cache and the ensure steps of generate_cache no record of
\* cpu_seeds has a target whose length differs from PAGE_ID_LENGTH, also when
\* the file was built under another identifier length.
C18_TargetsHaveConfiguredLength ==
  GenerateDone => \A i \in 1 .. Len(cpu_seeds) : Len(cpu_seeds[i][2]) = PAGE_ID_LENGTH

\* ---------------------------------------------------------------- C19
\* C19: when the persisted core_iterations differs from
\* CORE_PAGE_ITERATIONS_PER_CHAR, then after generate_cache every seed stored
\* under a character hashes to that character under the configured count, and
\* nothing was raised.
C19_CoreRegeneratedOnCostChange ==
  (GenerateDone /\ cache_file.exists
     /\ cache_file.core_iterations # CORE_PAGE_ITERATIONS_PER_CHAR) =>
     /\ ~raised
     /\ \A c \in DOMAIN core_seeds : \A i \in 1 .. Len(core_seeds[c]) :
          hash_core_seed(core_seeds[c][i], CORE_PAGE_ITERATIONS_PER_CHAR) = c

\* ---------------------------------------------------------------- C20
\* C20: when the write or the rename of save_cache fails, save_cache returns
\* False, raises nothing and leaves cpu_seeds, core_seeds and the cache file as
\* they were; ensure_cpu_seeds and ensure_core_char_coverage, whose saves fail,
\* still return True with the required coverage in memory.
C20_PersistenceFailureTolerated ==
  /\ [][save_cache =>
          /\ UNCHANGED <<cpu_seeds, core_seeds>>
          /\ ~disk_ok => (ret' = Bool(FALSE) /\ ~raised' /\ cache_file' = cache_file)]_vars
  /\ []((~disk_ok /\ EnsureCpuReturned) =>
          /\ ret = Bool(TRUE)
          /\ ~raised
          /\ Len(cpu_seeds) >= args.needed)
  /\ []((~disk_ok /\ EnsureCoreReturned) =>
          /\ ret = Bool(TRUE)
          /\ ~raised
          /\ \A c \in HexChars :
               c \in DOMAIN core_seeds /\ Len(core_seeds[c]) >= CORE_SEEDS_PER_CHAR)

C20_Witness ==
  /\ ~disk_ok
  /\ EnsureCoreReturned
  /\ ret = Bool(TRUE)
  /\ filed # {}
  /\ cpu_seeds # <<>>
  /\ ~cache_file.exists

\* ---------------------------------------------------------------- C21
\* the seeds of every bucket of core_seeds, one after the other
RECURSIVE CoreSeedList(_, _)
CoreSeedList(buckets, chars) ==
  IF chars = {} THEN <<>>
  ELSE LET c == Least(chars) IN buckets[c] \o CoreSeedList(buckets, chars \ {c})

\* C21: after any sequence of ensure_cpu_seeds and ensure_core_char_coverage
\* calls no seed appears more than once in cpu_seeds and no seed appears more
\* than once across the buckets of core_seeds.
C21_SeedsRecordedOnce ==
  CacherIdle =>
    /\ \A i, j \in 1 .. Len(cpu_seeds) : cpu_seeds[i][1] = cpu_seeds[j][1] => i = j
    /\ LET all == CoreSeedList(core_seeds, DOMAIN core_seeds)
       IN \A i, j \in 1 .. Len(all) : all[i] = all[j] => i = j

\* ---------------------------------------------------------------- C22
\* the number of edges stored in the link lists of the pages `ids`
RECURSIVE EdgeCount(_, _)
EdgeCount(graph, ids) ==
  IF ids = {} THEN 0
  ELSE LET id == CHOOSE x \in ids : TRUE
       IN Len(graph[id].links) + EdgeCount(graph, ids \ {id})

\* the number of links, over the whole graph, that lead to page_id
RECURSIVE LinksTo(_, _, _)
LinksTo(graph, ids, page_id) ==
  IF ids = {} THEN 0
  ELSE LET id == CHOOSE x \in ids : TRUE
       IN Cardinality({i \in 1 .. Len(graph[id].links) : UrlPageId(graph[id].links[i]) = page_id})
          + LinksTo(graph, ids \ {id}, page_id)

\* build_graph is between the start of the tree loop and the first attempt of
\* the densification loop
InTreePhase ==
  /\ program \in {"server", "demo_server"}
  /\ pc \in {"tree", "dense", "count"}
  /\ locals.attempts = 0

\* C22: after each step of the tree loop the graph holds one edge per non-root
\* page of pages_in_tree, every page of pages_in_tree is reachable from
\* PAGES[0], and when the loop has ended the tree holds all |V| pages and
\* |V| - 1 edges.
C22_TreeHasOneEdgePerPage ==
  InTreePhase =>
    LET in_tree == locals.pages_in_tree
        tree_ids == {in_tree[i].page_id : i \in 1 .. Len(in_tree)}
    IN /\ EdgeCount(GRAPH, DOMAIN GRAPH) = Len(in_tree) - 1
       /\ \A i \in 2 .. Len(in_tree) : LinksTo(GRAPH, DOMAIN GRAPH, in_tree[i].page_id) = 1
       /\ LinksTo(GRAPH, DOMAIN GRAPH, in_tree[1].page_id) = 0
       /\ tree_ids \subseteq ReachFrom(GRAPH, {PAGES[1].page_id})
       /\ pc # "tree" => /\ Len(in_tree) = Len(PAGES)
                         /\ EdgeCount(GRAPH, DOMAIN GRAPH) = Len(PAGES) - 1

C22_Witness ==
  /\ InTreePhase
  /\ pc = "dense"
  /\ Len(PAGES) = MaxPages
  /\ EdgeCount(GRAPH, DOMAIN GRAPH) = MaxPages - 1
  /\ GRAPH[PAGES[1].page_id].links # <<>>
  /\ GRAPH[PAGES[2].page_id].links # <<>>

\* ---------------------------------------------------------------- C23
\* C23: in every state during and after build_graph no link list holds an edge
\* to its own page and no link list holds the same target twice.
C23_NoSelfLoopNoDuplicateEdge ==
  program \in {"server", "demo_server"} =>
    \A id \in DOMAIN GRAPH :
      LET links == GRAPH[id].links
      IN /\ \A i \in 1 .. Len(links) : UrlPageId(links[i]) # id
         /\ \A i, j \in 1 .. Len(links) : UrlPageId(links[i]) = UrlPageId(links[j]) => i = j

\* build_graph is past the densification loop, which added an edge and
\* rejected an attempt
C23_Witness ==
  /\ program \in {"server", "demo_server"}
  /\ pc = "count"
  /\ locals.edges_added >= 1
  /\ locals.attempts > locals.edges_added
  /\ Len(PAGES) = MaxPages

\* ---------------------------------------------------------------- C24
\* C24: a graph of |V| >= 1 pages built with an extra-edge target E and an
\* attempt budget A ends with between |V| - 1 and |V| - 1 + min(E, A) edges,
\* and every page is reachable from PAGES[0].
C24_EdgeCountWithinBudget ==
  (GraphBuilt /\ Len(PAGES) >= 1) =>
    LET edges == EdgeCount(GRAPH, DOMAIN GRAPH)
    IN /\ edges >= Len(PAGES) - 1
       /\ edges <= Len(PAGES) - 1 + Min(EdgesWanted, MAX_ATTEMPTS_EDGE_GENERATION)
       /\ PageIds \subseteq ReachFrom(GRAPH, {PAGES[1].page_id})

\* the graph of MaxPages pages got every extra edge it asked for, one of them
\* back to the root
C24_Witness ==
  /\ GraphBuilt
  /\ Len(PAGES) = MaxPages
  /\ EdgeCount(GRAPH, DOMAIN GRAPH)
       = MaxPages - 1 + Min(EdgesWanted, MAX_ATTEMPTS_EDGE_GENERATION)
  /\ LinksTo(GRAPH, DOMAIN GRAPH, PAGES[1].page_id) >= 1

\* ---------------------------------------------------------------- C25
\* C25: the densification loop makes at most MAX_ATTEMPTS_EDGE_GENERATION
\* attempts, raises nothing and always ends, also when every attempt is
\* rejected as a self-loop or a duplicate.
C25_DensificationEnds ==
  /\ [](pc \in {"dense", "count"} =>
          /\ locals.attempts <= MAX_ATTEMPTS_EDGE_GENERATION
          /\ ~raised)
  /\ (pc = "dense") ~> (pc = "ready" /\ ~raised)

\* the loop has used its whole budget without adding an edge
C25_Witness ==
  /\ program \in {"server", "demo_server"}
  /\ pc = "count"
  /\ Len(PAGES) >= 2
  /\ locals.attempts = MAX_ATTEMPTS_EDGE_GENERATION
  /\ locals.edges_added = 0
  /\ EdgesWanted > 0

C27_IdGenerationEnds ==
  /\ [](( program = "demo_server" /\ pc = "pages_done" /\ config.TOTAL_PAGES <= Cardinality(IdSpace)) =>
          /\ Len(PAGES) = config.TOTAL_PAGES
          /\ \A i, j \in 1 .. Len(PAGES) : PAGES[i].page_id = PAGES[j].page_id => i = j)
  /\ (pc = "gen_ids") ~> (pc = "pages_done" \/ raised)

\* ---------------------------------------------------------------- C28
\* C28: the page list assembled from the CPU-pool targets, the core-derived ids
\* and the additional random ids holds no id twice, and once build_graph has
\* initialised GRAPH its key set is the set of page ids of PAGES.
C28_PageIdsUnique ==
  (program = "server" /\ pc \notin {"cpu_pool", "core_pool", "pools_done"}) =>
    /\ \A i, j \in 1 .. Len(PAGES) : PAGES[i].page_id = PAGES[j].page_id => i = j
    /\ pc # "pages_done" => DOMAIN GRAPH = PageIds

\* the graph of a page list with an id of each origin has been initialised
C28_Witness ==
  /\ program = "server"
  /\ pc = "tree"
  /\ Len(PAGES) = MaxPages
  /\ \E i, j, k \in 1 .. Len(PAGES) :
       /\ PAGES[i].page_id \in DictValues(CPU_SEED_POOL)
       /\ PAGES[j].page_id \in Range(CoreGroupIds(PoolValues(CORE_SEED_POOL)))
       /\ PAGES[k].page_id \notin DictValues(CPU_SEED_POOL)
                                    \cup Range(CoreGroupIds(PoolValues(CORE_SEED_POOL)))
  /\ Cardinality(DOMAIN GRAPH) = MaxPages

\* ---------------------------------------------------------------- C29
\* the first element of a response list, if it has one
First(list) == IF list = <<>> THEN <<>> ELSE <<list[1]>>

\* the request in progress is for a page of `kind` and its issuing call has returned
PageServed(kind) ==
  /\ program = "server"
  /\ op = "serve_page"
  /\ ThreadReturned(1, kind)

\* C29: a CPU page requested again returns the first hashseed it returned
\* before, and a core page requested again returns the first seed group it
\* returned before.
C29_SamePageSameFirstSeed ==
  \A kind \in Kinds :
    PageServed(kind) =>
      \A earlier \in filed :
        (earlier[1] = kind /\ earlier[2] = args.page_id /\ earlier[3] # <<>>
           /\ threads[1].ret # <<>>) =>
          First(earlier[3]) = First(threads[1].ret)

C31_LinkCountIsLength ==
  pc = "ready" =>
    \A id \in DOMAIN GRAPH : GRAPH[id].link_count = Len(GRAPH[id].links)

\* a page with a link has been built and then requested
C31_Witness ==
  /\ pc = "ready"
  /\ op = "serve_page"
  /\ args.page_id \in DOMAIN GRAPH
  /\ ret.status = 200
  /\ GRAPH[args.page_id].link_count > 0

\* ------------------------------------------------------------------ C32
\* C32: every step taken after build_graph has returned (a page request of
\* either server for any page type, the issuing of seeds it leads to, a request
\* for the root page) leaves the links and the link_count of every GRAPH entry
\* as they were.
C32_GraphImmutableAfterBuild ==
  [][pc = "ready" =>
       /\ DOMAIN GRAPH' = DOMAIN GRAPH
       /\ \A id \in DOMAIN GRAPH :
            /\ "links" \in DOMAIN GRAPH'[id]
            /\ GRAPH'[id].links = GRAPH[id].links
            /\ GRAPH'[id].link_count = GRAPH[id].link_count]_vars

\* a CPU page with a link was served and its seeds issued, and then the root
\* page was asked for
C32_Witness ==
  /\ op = "get_root_page"
  /\ \E served \in filed : served[1] = "cpu" /\ served[3] # <<>>

\* ------------------------------------------------------------------ C33
\* C33: when ensure_cpu_seeds has returned and is called again with the same
\* arguments, or ensure_core_char_coverage has returned and is called again,
\* the second call returns True at once and leaves cpu_seeds, core_seeds and
\* both iteration counts as the first call left them.
C33_GrowthIsIdempotent ==
  [][/\ pc = "idle"
     /\ ret = Bool(TRUE)
     /\ \/ /\ op = "ensure_cpu_seeds"
           /\ ensure_cpu_seeds(args.needed, args.cpu_iterations)
        \/ /\ op = "ensure_core_char_coverage"
           /\ ensure_core_char_coverage
     => /\ pc' = "idle"
        /\ ret' = Bool(TRUE)
        /\ cpu_seeds' = cpu_seeds
        /\ core_seeds' = core_seeds
        /\ cpu_iterations' = cpu_iterations
        /\ core_iterations' = core_iterations]_vars

\* ensure_cpu_seeds generated seeds under a changed iteration count and
\* returned, with a seed in the bucket of every character
C33_Witness ==
  /\ op = "ensure_cpu_seeds"
  /\ pc = "idle"
  /\ ret = Bool(TRUE)
  /\ args.cpu_iterations \notin {None, CPU_PAGE_ITERATIONS}
  /\ Len(cpu_seeds) = MaxNeeded
  /\ NeedingSeeds(WithAllBuckets(core_seeds)) = {}

\* ------------------------------------------------------------------ C34
\* the used set as the loop of get_cpu_seeds_for_targets sees it when it comes
\* to target i: the set the call started with and the seeds returned so far
UsedAt(used0, seeds, i) == used0 \cup {seeds[j] : j \in 1 .. (i - 1)}

\* C34: a call of HashCacher.get_cpu_seeds_for_targets that does not raise
\* returns one seed per target.  When every seed that maps to a target is in
\* used_seeds by the time the target is looked at, the seed returned for it is
\* the first one in pool order that maps to it; a seed that is in used_seeds
\* at that time is returned in that case only; and the used set of the caller
\* grows by the returned seeds and by nothing else, so a call that re-issues
\* for every target leaves it as it was.
C34_RelaxedPolicy ==
  [][(/\ \E targets \in CpuTargetLists, pass_used \in BOOLEAN :
           cacher_get_cpu_seeds_for_targets(targets, pass_used)
      /\ ~raised')
     => LET targets == args'.targets
            seeds == ret'.list
            used0 == IF args'.pass_used THEN used_seeds ELSE {}
        IN /\ Len(seeds) = Len(targets)
           /\ \A i \in 1 .. Len(targets) :
                LET any == Matching(cpu_seeds, targets[i])
                    all_used == \A k \in any : cpu_seeds[k][1] \in UsedAt(used0, seeds, i)
                IN /\ all_used => seeds[i] = cpu_seeds[Least(any)][1]
                   /\ seeds[i] \in UsedAt(used0, seeds, i) => all_used
           /\ used_seeds' = IF args'.pass_used THEN used_seeds \cup Range(seeds) ELSE used_seeds
    ]_vars

\* a call with the caller's used set asked twice for a target that one seed
\* maps to: the seed is issued, marked, and issued again
C34_Witness ==
  /\ CacherIdle
  /\ op = "get_cpu_seeds_for_targets"
  /\ ~raised
  /\ args.pass_used
  /\ Len(args.targets) = 2
  /\ Len(ret.list) = 2
  /\ ret.list[1] = ret.list[2]
  /\ used_seeds = {ret.list[1]}

\* ------------------------------------------------------------------ C35
\* the seeds of the list that map to the target
SeedsFor(pool, seeds, target) ==
  {i \in 1 .. Len(seeds) : seeds[i] \in DictKeys(pool) /\ DictGet(pool, seeds[i]) = target}

\* C35: a call of server.get_cpu_seeds_for_targets returns without raising a
\* list that is at most as long as the target list.  For every target it holds
\* as many seeds as the target was asked for, or as many as were left unused
\* for it when that is fewer: none for a target without a backing seed and
\* none for a target whose backing seeds were all in USED_CPU_SEEDS.
C35_StrictPolicy ==
  ThreadReturned(1, "cpu") =>
    LET th == threads[1]
    IN /\ ~raised
       /\ Len(th.ret) <= Len(th.targets)
       /\ \A i \in 1 .. Len(th.ret) : DictGet(CPU_SEED_POOL, th.ret[i]) \in Range(th.targets)
       /\ \A j \in 1 .. Len(th.targets) :
            LET target == th.targets[j]
                left == {k \in Matching(CPU_SEED_POOL, target) :
                           CPU_SEED_POOL[k][1] \notin th.used0}
            IN Cardinality(SeedsFor(CPU_SEED_POOL, th.ret, target))
                 = Min(Count(th.targets, target), Cardinality(left))

\* a call for a target whose seeds were all used and for a target no seed
\* maps to returned the empty list
C35_Witness ==
  /\ ThreadReturned(1, "cpu")
  /\ Len(threads[1].targets) = 2
  /\ Matching(CPU_SEED_POOL, threads[1].targets[1]) # {}
  /\ \A k \in Matching(CPU_SEED_POOL, threads[1].targets[1]) :
       CPU_SEED_POOL[k][1] \in threads[1].used0
  /\ NoBackingSeed(CPU_SEED_POOL, threads[1].targets[2])
  /\ threads[1].ret = <<>>

\* ------------------------------------------------------------------ C36
\* the records the cache file holds
FileRecords ==
  IF "cpu_seeds" \in DOMAIN cache_file THEN Range(cache_file.cpu_seeds) ELSE {}

\* the records the running call of ensure_cpu_seeds generated (the last
\* `generated` items of cpu_seeds) that no save has written
Unsaved ==
  {i \in (Len(cpu_seeds) - locals.generated + 1) .. Len(cpu_seeds) :
     cpu_seeds[i] \notin FileRecords}

\* C36: on a disk that takes every save, the generation loop of
\* ensure_cpu_seeds never holds more than 10 records of its own that no save
\* has written: after every 10th generated record the file holds all of
\* cpu_seeds, and the step that completes the generation saves once more.
C36_SavedEveryTenRecords ==
  /\ [](program = "hashcacher" /\ pc = "cpu_loop" /\ disk_ok =>
         /\ Cardinality(Unsaved) <= 10
         /\ (locals.generated > 0 /\ locals.generated % 10 = 0) =>
              cache_file.exists /\ cache_file.cpu_seeds = cpu_seeds)
  /\ [][program = "hashcacher" /\ pc = "cpu_loop" /\ pc' = "idle" /\ disk_ok =>
          cache_file'.exists /\ cache_file'.cpu_seeds = cpu_seeds']_vars

\* the loop has generated its 11th record: 10 are in the file, one is not
C36_Witness ==
  /\ program = "hashcacher"
  /\ pc = "cpu_loop"
  /\ disk_ok
  /\ locals.generated = 11
  /\ Cardinality(Unsaved) = 1

\* ------------------------------------------------------------------ C37
\* C37: every iteration of the densification loop counts one attempt.  An
\* attempt whose source is its target, or whose edge the source has already,
\* leaves GRAPH and edges_added as they were; edges_added grows by one in the
\* iterations that append one edge to GRAPH, and in no other.
C37_RejectedAttemptTakesNoSlot ==
  [][\A source \in 1 .. MaxPages, target \in 1 .. MaxPages, biased \in BOOLEAN :
       dense_step(source, target, biased) =>
         LET rejected == \/ PAGES[source].page_id = PAGES[target].page_id
                         \/ PAGES[target].url \in Range(GRAPH[PAGES[source].page_id].links)
             appended == EdgeCount(GRAPH', DOMAIN GRAPH') - EdgeCount(GRAPH, DOMAIN GRAPH)
         IN /\ locals'.attempts = locals.attempts + 1
            /\ rejected => GRAPH' = GRAPH /\ locals'.edges_added = locals.edges_added
            /\ appended \in {0, 1}
            /\ locals'.edges_added = locals.edges_added + appended]_vars

\* the loop has made an attempt that was rejected and one that added an edge
C37_Witness ==
  /\ program \in {"server", "demo_server"}
  /\ pc = "dense"
  /\ locals.attempts = 2
  /\ locals.edges_added = 1
  /\ EdgeCount(GRAPH, DOMAIN GRAPH) = Len(PAGES)

\* ------------------------------------------------------------------ C38
\* C38: on a disk that takes every save, whenever ensure_cpu_seeds has
\* returned, the cache file holds the cpu_seeds and the cpu_iterations of the
\* instance, also when the call cleared the partition for a changed iteration
\* count and had no seed to generate.
\* The formula speaks of the calls that return from the generation loop and of
\* the calls that return early on an instance whose file matched its memory
\* when the call began (a file the instance had loaded or saved).
FileMatchesMemory ==
  /\ cache_file.exists
  /\ cache_file.cpu_seeds = cpu_seeds
  /\ cache_file.cpu_iterations = cpu_iterations

C38_FileMatchesMemoryOnReturn ==
  [][/\ disk_ok
     /\ pc' = "idle"
     /\ \/ pc = "cpu_loop"
        \/ /\ FileMatchesMemory
           /\ \E needed \in 0 .. MaxNeeded, k \in IterArgs : ensure_cpu_seeds(needed, k)
     => FileMatchesMemory']_vars

\* ------------------------------------------------------------------ C39
\* a step of one of the four issuing functions
Issuing ==
  \/ program = "hashcacher" /\ serving
  \/ Requests

\* C39: a step of get_cpu_seeds_for_targets or get_core_seeds_for_targets, of
\* a HashCacher or of server.py, leaves the seed pools as they are and takes
\* no seed out of a reservation set; and a reservation set holds keys of its
\* pool only.
C39_IssuanceChangesReservationsOnly ==
  /\ [][Issuing =>
          /\ cpu_seeds' = cpu_seeds /\ core_seeds' = core_seeds
          /\ CPU_SEED_POOL' = CPU_SEED_POOL /\ CORE_SEED_POOL' = CORE_SEED_POOL
          /\ used_seeds \subseteq used_seeds'
          /\ USED_CPU_SEEDS \subseteq USED_CPU_SEEDS'
          /\ USED_CORE_SEEDS \subseteq USED_CORE_SEEDS']_vars
  /\ [](/\ used_seeds \subseteq DictKeys(cpu_seeds)
         /\ USED_CPU_SEEDS \subseteq DictKeys(CPU_SEED_POOL)
         /\ USED_CORE_SEEDS \subseteq DictKeys(CORE_SEED_POOL))

\* a HashCacher has issued a CPU seed into the caller's set and then core
\* seeds, or server.py has marked a CPU seed and a core seed
C39_Witness ==
  \/ /\ CacherCoreReturned
     /\ ret.list # <<>>
     /\ used_seeds # {}
  \/ /\ ThreadReturned(1, "core")
     /\ USED_CPU_SEEDS # {}
     /\ USED_CORE_SEEDS # {}

====
